---- MODULE Spec2Model ----
(***************************************************************************)
(* METAR collector: wind-observation extraction, month/year inference for  *)
(* DDHHMMZ tokens and the SQLite observation store of metar_collector.py,  *)
(* together with the stand-alone OGIMET / CheckWX parsers.                 *)
(*                                                                         *)
(* Text is modelled at token granularity: a report is a sequence of        *)
(* tokens, a DDHHMMZ token is its six decimal digits, a wind token is its  *)
(* direction text, the digits of its speed and gust groups and its unit.   *)
(* An ISO timestamp string is the tuple of its zero-padded fields, so that *)
(* string equality and string order are tuple equality and order.          *)
(***************************************************************************)
EXTENDS Integers, Sequences, FiniteSets, TLC

(***************************************************************************)
(* Bounds of the model.                                                    *)
(***************************************************************************)
\* longest list of reports one fetch returns
MaxBatch == 2
\* a collector is started only while its reports fit a table of this many rows
MaxRows == 3

(***************************************************************************)
(* Python values.                                                          *)
(***************************************************************************)
\* Python None where a dict or a datetime is expected
None == [none |-> TRUE]
\* Python None where a string is expected (a missing 'datetime' or 'date')
NoneStr == <<>>
\* Python None where an int is expected (wind_gust of a report without gust)
NoGust == -1

\* int() of a string of decimal digits
RECURSIVE DigitsToInt(_)
DigitsToInt(ds) ==
    IF Len(ds) = 0 THEN 0
    ELSE 10 * DigitsToInt(SubSeq(ds, 1, Len(ds) - 1)) + ds[Len(ds)]

(***************************************************************************)
(* datetime                                                                *)
(***************************************************************************)
IsLeap(year) ==
    \/ (year % 4 = 0 /\ year % 100 # 0)
    \/ year % 400 = 0

DaysInMonth(year, month) ==
    IF month \in {4, 6, 9, 11} THEN 30
    ELSE IF month = 2 THEN (IF IsLeap(year) THEN 29 ELSE 28)
    ELSE 31

\* datetime(year, month, day, hour, minute) raises ValueError unless this holds
ValidDate(year, month, day, hour, minute) ==
    /\ year >= 1 /\ year <= 9999
    /\ month >= 1 /\ month <= 12
    /\ day >= 1 /\ day <= DaysInMonth(year, month)
    /\ hour >= 0 /\ hour <= 23
    /\ minute >= 0 /\ minute <= 59

DateTime(y, mo, d, h, mi) ==
    [year |-> y, month |-> mo, day |-> d, hour |-> h, minute |-> mi]

\* datetime.isoformat(): 'YYYY-MM-DDTHH:MM:00'
Isoformat(dt) == <<dt.year, dt.month, dt.day, dt.hour, dt.minute, 0>>

\* datetime.strftime('%Y-%m-%d')
DateStr(dt) == <<dt.year, dt.month, dt.day>>

(***************************************************************************)
(* Tokens and reports.                                                     *)
(***************************************************************************)
Word(text) == [kind |-> "word", text |-> text]
\* DDHHMMZ
TimeTok(digits) == [kind |-> "time", digits |-> digits]
\* dddss[Ggg]UU
WindTok(direction, speed, gust, unit) ==
    [kind |-> "wind", direction |-> direction, speed |-> speed,
     gust |-> gust, unit |-> unit]

\* a token of digits only (a visibility 2000, a year, a month)
NumTok(digits) == [kind |-> "number", digits |-> digits]
\* YYYY/MM/DD HH:MM
FullDateTok(y, mo, d, h, mi) ==
    [kind |-> "fulldate", year |-> y, month |-> mo, day |-> d, hour |-> h,
     minute |-> mi]

\* a search that gives the rightmost match
LastMatch(hits) ==
    IF hits = {} THEN 0 ELSE CHOOSE i \in hits : \A j \in hits : i >= j

\* re.search(pattern, text): position of the leftmost token of the text that
\* the pattern matches, 0 when there is no match
FirstMatch(hits) ==
    IF hits = {} THEN 0 ELSE CHOOSE i \in hits : \A j \in hits : i <= j

(***************************************************************************)
(* State.                                                                  *)
(***************************************************************************)
VARIABLES
    now,              \* the system clock, what datetime.utcnow() returns
    table,            \* committed rows of metar_observations
    lock,             \* the connection holding SQLite's write lock, or NoLock
    pc,               \* position of each collector process in run()
    station,          \* self.station of each collector
    metars,           \* run(): the list fetch_metar_data returned
    observations,     \* run() / store_observations: the parsed observations
    idx,              \* store_observations: position of the for loop
    new_count,        \* store_observations: new_count
    duplicate_count,  \* store_observations: duplicate_count
    pending,          \* rows inserted on the connection and not yet committed
    script,           \* how the last run of a stand-alone script ended
    wind_data,        \* the list of records the last script run built
    json_file,        \* the contents of la_gomera_wind_data.json
    params,           \* export_data: station, start_date, end_date of the call
    rows,             \* export_data: rows = cursor.fetchall()
    daily_data,       \* export_data / aggregate_by_day: the daily aggregates
    output_file,      \* what the call wrote to its output file
    synop_data,       \* export_wind_data.main: what fetch_metar returned
    unique_wind_data, \* export_wind_data.main: unique_wind_data
    db_stats,         \* run(): stats = self.get_database_stats()
    html_text,        \* the text handed to a report tokenizer, line by line
    unique_metars,    \* the list of reports the tokenizer returned
    loop              \* the locals of a chunked fetch loop

\* the state of the stand-alone scripts
scriptVars == <<script, wind_data, json_file>>

\* the file named output_file: left alone by the call, or opened and written
NotWritten == [written |-> FALSE, content |-> <<>>]
Written(content) == [written |-> TRUE, content |-> content]

\* the state of a call of export_data.py
exportVars == <<params, rows, daily_data, output_file>>

\* the state of a run of export_wind_data.py
synopVars == <<synop_data, unique_wind_data>>

\* the state of the report tokenizers and of the chunked fetch loops
fetchVars == <<html_text, unique_metars, loop>>

\* the state of everything the collector does not touch
toolVars == <<scriptVars, exportVars, synopVars, fetchVars>>

\* the state of the collector and of its database
collectorVars == <<table, lock, pc, station, metars, observations, idx,
                   new_count, duplicate_count, pending, db_stats>>

vars == <<now, table, lock, pc, station, metars, observations, idx,
          new_count, duplicate_count, pending, db_stats, toolVars>>

(***************************************************************************)
(* metar_collector.py: parsing.                                            *)
(***************************************************************************)
\* (\d{3}|VRB)(\d{2,3})(?:G(\d{2,3}))?(KT|MPS)
CollectorWindPattern(tok) ==
    /\ tok.kind = "wind"
    /\ tok.unit \in {"KT", "MPS"}

\* \b(\d{6}Z)\b
TimePattern(tok) == tok.kind = "time"

\* a rollover test that is off by one
RolloverOffByOne(day, clock) == day >= clock.day

\* if day > now.day: the report belongs to the month before the clock's
Rollover(day, clock) == day > clock.day

\* a resolver that knows no rollover: always the clock's month and year
ParseObsDatetimeSameMonth(obs_time) ==
    LET day    == DigitsToInt(SubSeq(obs_time, 1, 2))
        hour   == DigitsToInt(SubSeq(obs_time, 3, 4))
        minute == DigitsToInt(SubSeq(obs_time, 5, 6))
    IN  IF ValidDate(now.year, now.month, day, hour, minute)
        THEN DateTime(now.year, now.month, day, hour, minute)
        ELSE None

\* METARCollector._parse_obs_datetime: the clock is read inside
ParseObsDatetime(obs_time) ==
    LET day    == DigitsToInt(SubSeq(obs_time, 1, 2))
        hour   == DigitsToInt(SubSeq(obs_time, 3, 4))
        minute == DigitsToInt(SubSeq(obs_time, 5, 6))
        month  == IF Rollover(day, now)
                  THEN (IF now.month > 1 THEN now.month - 1 ELSE 12)
                  ELSE now.month
        year   == IF Rollover(day, now)
                  THEN (IF now.month > 1 THEN now.year ELSE now.year - 1)
                  ELSE now.year
    IN  IF ValidDate(year, month, day, hour, minute)
        THEN DateTime(year, month, day, hour, minute)
        ELSE None

\* METARCollector.parse_metar
ParseMetar(self_station, metar_text) ==
    LET w == FirstMatch({i \in 1..Len(metar_text) :
                            CollectorWindPattern(metar_text[i])})
        t == FirstMatch({i \in 1..Len(metar_text) :
                            TimePattern(metar_text[i])})
    IN  IF Len(metar_text) = 0 THEN None
        ELSE IF w = 0 \/ t = 0 THEN None
        ELSE LET obs_time == metar_text[t].digits
                 parsed_datetime == ParseObsDatetime(obs_time)
             IN  IF parsed_datetime = None THEN None
                 ELSE [station          |-> self_station,
                       observation_time |-> obs_time,
                       datetime         |-> Isoformat(parsed_datetime),
                       date             |-> DateStr(parsed_datetime),
                       wind_direction   |-> metar_text[w].direction,
                       wind_speed       |-> DigitsToInt(metar_text[w].speed),
                       wind_gust        |-> IF Len(metar_text[w].gust) > 0
                                            THEN DigitsToInt(metar_text[w].gust)
                                            ELSE NoGust,
                       unit             |-> metar_text[w].unit,
                       metar_text       |-> metar_text,
                       fetched_at       |-> Isoformat(now)]

\* a parse loop that gives up at the first report it cannot parse
RECURSIVE ParseAllUntilNone(_, _)
ParseAllUntilNone(self_station, ms) ==
    IF Len(ms) = 0 THEN <<>>
    ELSE LET obs == ParseMetar(self_station, Head(ms))
         IN  IF obs = None THEN <<>>
             ELSE <<obs>> \o ParseAllUntilNone(self_station, Tail(ms))

\* for metar_text in metars: obs = parse_metar(metar_text); if obs: append
RECURSIVE ParseAll(_, _)
ParseAll(self_station, ms) ==
    IF Len(ms) = 0 THEN <<>>
    ELSE LET obs == ParseMetar(self_station, Head(ms))
         IN  (IF obs = None THEN <<>> ELSE <<obs>>)
                 \o ParseAll(self_station, Tail(ms))

(***************************************************************************)
(* metar_collector.py: the store.                                          *)
(***************************************************************************)
\* STATIONS
STATIONS == <<"GCGM", "GCLA", "KROW">>

\* the collector processes that may run at the same time (cron runs overlap)
Writers == {"w1", "w2"}

NoLock == "none"

\* a uniqueness constraint over the raw text instead of the instant
UniqueKeyByText(row) == <<row.station, row.metar_text>>

\* UNIQUE(station, observation_time, datetime)
UniqueKey(row) == <<row.station, row.observation_time, row.datetime>>

\* a table without any constraint
IntegrityErrorNever(stored, obs) == FALSE

\* the INSERT raises sqlite3.IntegrityError
IntegrityError(stored, obs) ==
    \E row \in stored : UniqueKey(row) = UniqueKey(obs)

\* a loop that is left at the first duplicate
AfterDuplicateBreak(i, n) == 0

\* except sqlite3.IntegrityError: duplicate_count += 1, and the for loop goes
\* on with the next observation (0: the list is exhausted)
AfterDuplicate(i, n) == IF i < n THEN i + 1 ELSE 0

\* a store that lets every connection write at once
MayWriteAlways(holder, p) == TRUE

\* SQLite gives the write lock to one connection at a time; it is held from
\* the first INSERT of a transaction to its commit or rollback
MayWrite(holder, p) == holder \in {NoLock, p}

\* an INSERT OR REPLACE: the new row takes the place of the row with its key
PendingOnConflictReplace(uncommitted, obs) ==
    { row \in uncommitted : UniqueKey(row) # UniqueKey(obs) } \cup {obs}

\* a plain INSERT that raised IntegrityError has written nothing
PendingOnConflict(uncommitted, obs) == uncommitted

\* a commit that overwrites the table with the rows of the transaction
RowsAfterCommitOverwrite(committed, uncommitted) == uncommitted

\* conn.commit(): the rows of the transaction are added to the table
RowsAfterCommit(committed, uncommitted) == committed \cup uncommitted

\* a connection that commits what it has inserted when the call fails
RowsAfterRaiseCommitted(committed, uncommitted) == committed \cup uncommitted

\* the rows of the table once an exception has left store_observations
\* before conn.commit(): the connection's transaction is rolled back
RowsAfterRaise(committed, uncommitted) == committed

(***************************************************************************)
(* What the outside world supplies.                                        *)
(***************************************************************************)
\* readings of the system clock
ClockReadings ==
    { DateTime(2025, 1, 1, 0, 0),
      DateTime(2025, 2, 28, 12, 0),
      DateTime(2025, 3, 5, 0, 0) }

\* a < b for two ISO strings of the same layout
StrLess(a, b) ==
    \/ /\ Len(a) < Len(b)
       /\ \A j \in 1..Len(a) : a[j] = b[j]
    \/ \E i \in 1..Len(a) :
          /\ i <= Len(b)
          /\ a[i] < b[i]
          /\ \A j \in 1..(i - 1) : a[j] = b[j]

\* report texts after the station identifier
ReportBodies ==
    { << TimeTok(<<2, 8, 0, 8, 3, 0>>), WindTok("010", <<0, 5>>, <<>>, "KT") >>,
      << TimeTok(<<2, 8, 0, 8, 3, 0>>), WindTok("020", <<1, 0>>, <<2, 0>>, "KT") >>,
      << TimeTok(<<3, 1, 0, 8, 3, 0>>), WindTok("VRB", <<0, 3>>, <<>>, "KT") >>,
      << TimeTok(<<9, 9, 9, 9, 9, 9>>), Word("GARBAGE") >> }

\* the report texts among them that carry a wind group
WindBodies == { body \in ReportBodies : body[2].kind = "wind" }

\* the lists of reports one fetch may return for a station
BatchesOf(st, bodies) ==
    UNION { [1..n -> { <<Word(st)>> \o body : body \in bodies }] :
              n \in 0..MaxBatch }

\* the collector process of main()
Main == "w1"

\* the stations collectors are started for
RunStations == { STATIONS[1], STATIONS[2] }

(***************************************************************************)
(* Initial state.                                                          *)
(***************************************************************************)
InitStore ==
    /\ table = {}
    /\ lock = NoLock
    /\ pc = [p \in Writers |-> "idle"]
    /\ station = [p \in Writers |-> STATIONS[1]]
    /\ metars = [p \in Writers |-> <<>>]
    /\ observations = [p \in Writers |-> <<>>]
    /\ idx = [p \in Writers |-> 0]
    /\ new_count = [p \in Writers |-> 0]
    /\ duplicate_count = [p \in Writers |-> 0]
    /\ pending = [p \in Writers |-> {}]
    /\ script = "none"
    /\ wind_data = <<>>
    /\ json_file = <<>>
    /\ params = None
    /\ rows = <<>>
    /\ daily_data = <<>>
    /\ output_file = NotWritten
    /\ synop_data = <<>>
    /\ unique_wind_data = <<>>
    /\ db_stats = [p \in Writers |-> None]
    /\ unique_metars = <<>>
    /\ loop = None

InitRest == InitStore /\ html_text = <<>>

Init == now \in ClockReadings /\ InitRest

(***************************************************************************)
(* Actions.                                                                *)
(***************************************************************************)
\* time passes
Tick ==
    /\ \E later \in ClockReadings :
          /\ StrLess(Isoformat(now), Isoformat(later))
          /\ now' = later
    /\ UNCHANGED <<table, lock, pc, station, metars, observations, idx,
                   new_count, duplicate_count, pending, db_stats, toolVars>>

NotRunning(p) == pc[p] \in {"idle", "returned_true", "returned_false", "raised"}

\* main() builds METARCollector(api_key, station) and calls run();
\* fetch_metar_data returns None: run() returns False
RunFetchFailed(p) ==
    /\ NotRunning(p)
    /\ pc[p] # "returned_false"
    /\ \E st \in RunStations : station' = [station EXCEPT ![p] = st]
    /\ pc' = [pc EXCEPT ![p] = "returned_false"]
    /\ metars' = [metars EXCEPT ![p] = <<>>]
    /\ observations' = [observations EXCEPT ![p] = <<>>]
    /\ idx' = [idx EXCEPT ![p] = 0]
    /\ new_count' = [new_count EXCEPT ![p] = 0]
    /\ duplicate_count' = [duplicate_count EXCEPT ![p] = 0]
    /\ db_stats' = [db_stats EXCEPT ![p] = None]
    /\ UNCHANGED <<now, table, lock, pending, toolVars>>

\* run() up to the for loop of store_observations: fetch, parse every report,
\* return 0 from store_observations when nothing was parsed, else connect
RunFetchParse(p, stations, bodies) ==
    /\ NotRunning(p)
    /\ \E st \in stations : \E ms \in BatchesOf(st, bodies) :
          /\ Cardinality(table) + Len(ms) <= MaxRows
          /\ station' = [station EXCEPT ![p] = st]
          /\ metars' = [metars EXCEPT ![p] = ms]
          /\ IF Len(ms) = 0
             THEN /\ pc' = [pc EXCEPT ![p] = "returned_true"]
                  /\ observations' = [observations EXCEPT ![p] = <<>>]
                  /\ idx' = [idx EXCEPT ![p] = 0]
             ELSE LET parsed == ParseAll(st, ms)
                  IN  /\ observations' = [observations EXCEPT ![p] = parsed]
                      /\ IF Len(parsed) = 0
                         THEN /\ pc' = [pc EXCEPT ![p] = "stats"]
                              /\ idx' = [idx EXCEPT ![p] = 0]
                         ELSE /\ pc' = [pc EXCEPT ![p] = "insert"]
                              /\ idx' = [idx EXCEPT ![p] = 1]
    /\ new_count' = [new_count EXCEPT ![p] = 0]
    /\ duplicate_count' = [duplicate_count EXCEPT ![p] = 0]
    /\ db_stats' = [db_stats EXCEPT ![p] = None]
    /\ UNCHANGED <<now, table, lock, pending, toolVars>>

\* one iteration of the for loop of store_observations; the INSERT waits while
\* another connection holds the write lock
InsertStep(p) ==
    /\ pc[p] = "insert"
    /\ MayWrite(lock, p)
    /\ LET obs  == observations[p][idx[p]]
           n    == Len(observations[p])
           dup  == IntegrityError(table \cup pending[p], obs)
           next == IF dup THEN AfterDuplicate(idx[p], n)
                   ELSE IF idx[p] < n THEN idx[p] + 1 ELSE 0
       IN  /\ IF dup
              THEN /\ duplicate_count' =
                         [duplicate_count EXCEPT ![p] = duplicate_count[p] + 1]
                   /\ pending' = [pending EXCEPT ![p] =
                                      PendingOnConflict(pending[p], obs)]
                   /\ UNCHANGED new_count
              ELSE /\ pending' = [pending EXCEPT ![p] = pending[p] \cup {obs}]
                   /\ new_count' = [new_count EXCEPT ![p] = new_count[p] + 1]
                   /\ UNCHANGED duplicate_count
           /\ IF next # 0
              THEN /\ idx' = [idx EXCEPT ![p] = next]
                   /\ UNCHANGED pc
              ELSE /\ pc' = [pc EXCEPT ![p] = "commit"]
                   /\ UNCHANGED idx
    /\ lock' = p
    /\ UNCHANGED <<now, table, station, metars, observations, db_stats,
                   toolVars>>

\* conn.commit(); conn.close(); return new_count
Commit(p) ==
    /\ pc[p] = "commit"
    /\ table' = RowsAfterCommit(table, pending[p])
    /\ pending' = [pending EXCEPT ![p] = {}]
    /\ lock' = NoLock
    /\ pc' = [pc EXCEPT ![p] = "stats"]
    /\ UNCHANGED <<now, station, metars, observations, idx, new_count,
                   duplicate_count, db_stats, toolVars>>

\* an execute() or the commit raises something that is not an IntegrityError
\* (database is locked, disk I/O error): nothing catches it
StoreFailure(p) ==
    /\ pc[p] \in {"insert", "commit"}
    /\ table' = RowsAfterRaise(table, pending[p])
    /\ pending' = [pending EXCEPT ![p] = {}]
    /\ lock' = IF lock = p THEN NoLock ELSE lock
    /\ pc' = [pc EXCEPT ![p] = "raised"]
    /\ UNCHANGED <<now, station, metars, observations, idx, new_count,
                   duplicate_count, db_stats, toolVars>>

\* a count over the rows of every station
CountAllStations(committed, st) == Cardinality(committed)

\* SELECT COUNT FROM metar_observations WHERE station = ? (all columns)
CountOfStation(committed, st) ==
    Cardinality({ row \in committed : row.station = st })

\* get_database_stats: the count and the MIN(date), MAX(date) of the rows of
\* self.station, both NULL when the station has none
DatabaseStats(st) ==
    LET found == { row \in table : row.station = st }
    IN  [total_observations |-> CountOfStation(table, st),
         earliest_date |->
             IF found = {} THEN NoneStr
             ELSE CHOOSE d \in { row.date : row \in found } :
                    \A row \in found : ~StrLess(row.date, d),
         latest_date |->
             IF found = {} THEN NoneStr
             ELSE CHOOSE d \in { row.date : row \in found } :
                    \A row \in found : ~StrLess(d, row.date)]

\* get_database_stats, then run() returns True
Stats(p) ==
    /\ pc[p] = "stats"
    /\ pc' = [pc EXCEPT ![p] = "returned_true"]
    /\ metars' = [metars EXCEPT ![p] = <<>>]
    /\ observations' = [observations EXCEPT ![p] = <<>>]
    /\ idx' = [idx EXCEPT ![p] = 0]
    /\ new_count' = [new_count EXCEPT ![p] = 0]
    /\ duplicate_count' = [duplicate_count EXCEPT ![p] = 0]
    /\ db_stats' = [db_stats EXCEPT ![p] = DatabaseStats(station[p])]
    /\ UNCHANGED <<now, table, lock, station, pending, toolVars>>

\* main(): one collector after the other, run after run
Next ==
    \/ Tick
    \/ RunFetchFailed(Main)
    \/ RunFetchParse(Main, RunStations, ReportBodies)
    \/ InsertStep(Main)
    \/ Commit(Main)
    \/ StoreFailure(Main)
    \/ Stats(Main)

Spec == Init /\ [][Next]_vars

\* two collectors started for the same station at the same time, one run each
NextConcurrent ==
    \/ \E p \in Writers :
          /\ pc[p] = "idle"
          /\ RunFetchParse(p, {STATIONS[1]}, WindBodies)
    \/ \E p \in Writers : InsertStep(p)
    \/ \E p \in Writers : Commit(p)
    \/ \E p \in Writers : StoreFailure(p)
    \/ \E p \in Writers : Stats(p)

SpecConcurrent == Init /\ [][NextConcurrent]_vars

\* main() with two stations on its command line, one collector for each; the
\* collectors may also be two processes whose runs interleave
StationOf(p) == IF p = Main THEN STATIONS[1] ELSE STATIONS[2]

NextStations ==
    \/ \E p \in Writers :
          /\ pc[p] = "idle"
          /\ RunFetchParse(p, {StationOf(p)}, WindBodies)
    \/ \E p \in Writers : InsertStep(p)
    \/ \E p \in Writers : Commit(p)
    \/ \E p \in Writers : StoreFailure(p)
    \/ \E p \in Writers : Stats(p)

SpecStations == Init /\ [][NextStations]_vars

(***************************************************************************)
(* Collector runs that fetch the reports of the last HOURS_TO_FETCH hours. *)
(***************************************************************************)
HOURS_TO_FETCH == 48

\* days from 2024-01-01 to the first day of a year, of a month of a year
RECURSIVE DaysBeforeYear(_)
DaysBeforeYear(year) ==
    IF year <= 2024 THEN 0
    ELSE (IF IsLeap(year - 1) THEN 366 ELSE 365) + DaysBeforeYear(year - 1)

RECURSIVE DaysBeforeMonth(_, _)
DaysBeforeMonth(year, month) ==
    IF month <= 1 THEN 0
    ELSE DaysInMonth(year, month - 1) + DaysBeforeMonth(year, month - 1)

\* minutes from 2024-01-01T00:00 to a datetime: a - b of two datetimes is the
\* difference of their minutes
Minutes(dt) ==
    ((DaysBeforeYear(dt.year) + DaysBeforeMonth(dt.year, dt.month) + dt.day - 1)
        * 24 + dt.hour) * 60 + dt.minute

\* the instant t lies within the HOURS_TO_FETCH hours before the clock reading
InWindow(t, clock) ==
    /\ Minutes(t) <= Minutes(clock)
    /\ Minutes(clock) - Minutes(t) <= HOURS_TO_FETCH * 60

\* the DDHHMMZ token of a report observed at t
TokenOf(t) ==
    << t.day \div 10, t.day % 10, t.hour \div 10, t.hour % 10,
       t.minute \div 10, t.minute % 10 >>

\* the instants at which the station has made its observations
ObservationInstants ==
    { DateTime(2024, 12, 30, 23, 30),
      DateTime(2024, 12, 31, 8, 30),
      DateTime(2025, 1, 1, 0, 0),
      DateTime(2025, 2, 27, 12, 30),
      DateTime(2025, 2, 28, 8, 30),
      DateTime(2025, 3, 1, 5, 30) }

\* the clock readings of the runs
WindowClockReadings ==
    { DateTime(2024, 12, 31, 12, 0),
      DateTime(2025, 1, 1, 0, 0),
      DateTime(2025, 2, 28, 12, 0),
      DateTime(2025, 3, 1, 6, 0) }

\* the report texts, after the station identifier, of the observations of the
\* last HOURS_TO_FETCH hours
WindowBodies ==
    { << TimeTok(TokenOf(t)), WindTok("010", <<0, 5>>, <<>>, "KT") >> :
        t \in { u \in ObservationInstants : InWindow(u, now) } }

\* time passes between and during the runs
WindowTick ==
    /\ \E later \in WindowClockReadings :
          /\ StrLess(Isoformat(now), Isoformat(later))
          /\ now' = later
    /\ UNCHANGED <<table, lock, pc, station, metars, observations, idx,
                   new_count, duplicate_count, pending, db_stats, toolVars>>

InitWindow == now \in WindowClockReadings /\ InitRest

NextWindow ==
    \/ WindowTick
    \/ RunFetchParse(Main, {STATIONS[1]}, WindowBodies)
    \/ InsertStep(Main)
    \/ Commit(Main)
    \/ StoreFailure(Main)
    \/ Stats(Main)

SpecWindow == InitWindow /\ [][NextWindow]_vars

(***************************************************************************)
(* fetch_ogimet_data.py and fetch_checkwx_data.py: the stand-alone scripts *)
(* that write la_gomera_wind_data.json.                                    *)
(***************************************************************************)
\* (\d{3}|VRB)(\d{2,3})(?:G(\d{2,3}))?(KT|MPS|KPH)
OgimetWindPattern(tok) ==
    /\ tok.kind = "wind"
    /\ tok.unit \in {"KT", "MPS", "KPH"}

\* the record both scripts build from a wind token w and a time token t
\* (t = 0: no DDHHMMZ token) of a report: a date that datetime() refuses
\* leaves parsed_datetime None, and the record is returned all the same
WindRecord(metar_text, w, t) ==
    LET obs_time == metar_text[t].digits
        day      == DigitsToInt(SubSeq(obs_time, 1, 2))
        hour     == DigitsToInt(SubSeq(obs_time, 3, 4))
        minute   == DigitsToInt(SubSeq(obs_time, 5, 6))
        month    == IF day > now.day
                    THEN (IF now.month = 1 THEN 12 ELSE now.month - 1)
                    ELSE now.month
        year     == IF day > now.day
                    THEN (IF now.month = 1 THEN now.year - 1 ELSE now.year)
                    ELSE now.year
        parsed   == t # 0 /\ ValidDate(year, month, day, hour, minute)
    IN  [metar            |-> metar_text,
         observation_time |-> IF t # 0 THEN obs_time ELSE NoneStr,
         datetime         |-> IF parsed
                              THEN Isoformat(DateTime(year, month, day, hour, minute))
                              ELSE NoneStr,
         date             |-> IF parsed
                              THEN DateStr(DateTime(year, month, day, hour, minute))
                              ELSE NoneStr,
         wind_direction   |-> metar_text[w].direction,
         wind_speed       |-> DigitsToInt(metar_text[w].speed),
         wind_gust        |-> IF Len(metar_text[w].gust) > 0
                              THEN DigitsToInt(metar_text[w].gust)
                              ELSE NoGust,
         unit             |-> metar_text[w].unit,
         timestamp        |-> Isoformat(now)]

\* fetch_ogimet_data.parse_wind_data
OgimetParseWindData(metar_text) ==
    LET w == FirstMatch({i \in 1..Len(metar_text) :
                            OgimetWindPattern(metar_text[i])})
        t == FirstMatch({i \in 1..Len(metar_text) :
                            TimePattern(metar_text[i])})
    IN  IF w = 0 THEN None ELSE WindRecord(metar_text, w, t)

\* fetch_checkwx_data.parse_checkwx_metar
ParseCheckwxMetar(metar_text) ==
    LET w == FirstMatch({i \in 1..Len(metar_text) :
                            CollectorWindPattern(metar_text[i])})
        t == FirstMatch({i \in 1..Len(metar_text) :
                            TimePattern(metar_text[i])})
    IN  IF Len(metar_text) = 0 \/ w = 0 THEN None
        ELSE WindRecord(metar_text, w, t)

\* a tokenizer that returns every report it found
UniqueMetarsKeepAll(ms, seen) == ms

\* parse_ogimet_response: remove duplicates while preserving order
RECURSIVE UniqueMetars(_, _)
UniqueMetars(ms, seen) ==
    IF Len(ms) = 0 THEN <<>>
    ELSE IF Head(ms) \in seen THEN UniqueMetars(Tail(ms), seen)
    ELSE <<Head(ms)>> \o UniqueMetars(Tail(ms), seen \cup {Head(ms)})

\* for metar in metars: parsed = parse_wind_data(metar); if parsed: append
RECURSIVE OgimetParseEach(_)
OgimetParseEach(ms) ==
    IF Len(ms) = 0 THEN <<>>
    ELSE LET parsed == OgimetParseWindData(Head(ms))
         IN  (IF parsed = None THEN <<>> ELSE <<parsed>>)
                 \o OgimetParseEach(Tail(ms))

\* for metar_text in metars: wind_record = parse_checkwx_metar(metar_text)
RECURSIVE CheckwxParseEach(_)
CheckwxParseEach(ms) ==
    IF Len(ms) = 0 THEN <<>>
    ELSE LET wind_record == ParseCheckwxMetar(Head(ms))
         IN  (IF wind_record = None THEN <<>> ELSE <<wind_record>>)
                 \o CheckwxParseEach(Tail(ms))

\* x['datetime'] if x['datetime'] else ''
SortKey(x) == IF x.datetime = NoneStr THEN <<>> ELSE x.datetime

\* list.sort(key=...): stable, ascending
RECURSIVE SortByDatetime(_)
SortByDatetime(xs) ==
    IF Len(xs) = 0 THEN <<>>
    ELSE LET front  == SortByDatetime(SubSeq(xs, 1, Len(xs) - 1))
             x      == xs[Len(xs)]
             k      == Cardinality({ i \in 1..Len(front) :
                                       ~StrLess(SortKey(x), SortKey(front[i])) })
         IN  SubSeq(front, 1, k) \o <<x>> \o SubSeq(front, k + 1, Len(front))

\* the report texts the scripts are given
ScriptBodies ==
    { << TimeTok(<<2, 8, 0, 8, 3, 0>>), WindTok("020", <<1, 0>>, <<2, 0>>, "KT") >>,
      << TimeTok(<<3, 1, 0, 8, 3, 0>>), WindTok("VRB", <<0, 3>>, <<>>, "KT") >>,
      << TimeTok(<<0, 5, 0, 0, 0, 0>>), WindTok("360", <<1, 2>>, <<>>, "KPH") >>,
      << TimeTok(<<9, 9, 9, 9, 9, 9>>), Word("GARBAGE") >> }

\* fetch_ogimet_data.main: the reports of parse_ogimet_response, and when
\* there are any, convert_to_json: parse, sort by datetime, write the file
OgimetMain(raw) ==
    /\ LET ms == UniqueMetars(raw, {})
       IN  IF Len(ms) = 0
           THEN /\ script' = "ogimet_no_data"
                /\ wind_data' = <<>>
                /\ UNCHANGED json_file
           ELSE /\ script' = "ogimet_saved"
                /\ wind_data' = SortByDatetime(OgimetParseEach(ms))
                /\ json_file' = wind_data'
    /\ UNCHANGED <<now, collectorVars, exportVars, synopVars,
                   fetchVars>>

\* fetch_checkwx_data.main: fetch_checkwx_metar parses every report, and when
\* there are records save_to_json sorts them with key x.get('datetime', ''),
\* which is None for a record without datetime: comparing it raises TypeError
CheckwxMain(ms) ==
    /\ LET all_wind_data == CheckwxParseEach(ms)
           unordered == /\ Len(all_wind_data) >= 2
                        /\ \E i \in 1..Len(all_wind_data) :
                              all_wind_data[i].datetime = NoneStr
       IN  IF Len(all_wind_data) = 0
           THEN /\ script' = "checkwx_no_data"
                /\ wind_data' = <<>>
                /\ UNCHANGED json_file
           ELSE IF unordered
           THEN /\ script' = "checkwx_TypeError"
                /\ wind_data' = all_wind_data
                /\ UNCHANGED json_file
           ELSE /\ script' = "checkwx_saved"
                /\ wind_data' = SortByDatetime(all_wind_data)
                /\ json_file' = wind_data'
    /\ UNCHANGED <<now, collectorVars, exportVars, synopVars,
                   fetchVars>>

InitScripts == now \in ClockReadings /\ InitRest

NextScripts ==
    \/ \E raw \in BatchesOf("GCGM", ScriptBodies) : OgimetMain(raw)
    \/ \E ms \in BatchesOf("GCGM", ScriptBodies) : CheckwxMain(ms)

SpecScripts == InitScripts /\ [][NextScripts]_vars

(***************************************************************************)
(* export_data.py: the reads of the observation store.                     *)
(***************************************************************************)
\* sum of f over the set S
RECURSIVE SumOver(_, _)
SumOver(S, f) ==
    IF S = {} THEN 0
    ELSE LET x == CHOOSE y \in S : TRUE
         IN  f[x] + SumOver(S \ {x}, f)

\* ORDER BY: the elements of S in ascending order of the strings k gives them
RECURSIVE OrderBy(_, _)
OrderBy(S, k) ==
    IF S = {} THEN <<>>
    ELSE LET first == CHOOSE r \in S : \A o \in S : ~StrLess(k[o], k[r])
         IN  <<first>> \o OrderBy(S \ {first}, k)

\* a lower bound that leaves out the rows of the bound's own date
DateGeStrict(a, b) == StrLess(b, a)

\* a >= b in SQLite for two TEXT values
DateGe(a, b) == ~StrLess(a, b)

\* SELECT * FROM metar_observations WHERE station = ? [AND date >= ?]
\* [AND date <= ?] ORDER BY datetime; a bound that is None or '' is left out
SelectRows(st, start_date, end_date) ==
    LET found == { row \in table :
                     /\ row.station = st
                     /\ start_date # NoneStr => DateGe(row.date, start_date)
                     /\ end_date # NoneStr => DateGe(end_date, row.date) }
    IN  OrderBy(found, [row \in found |-> row.datetime])

\* a rounding that cuts the second decimal off
RoundDown(total, n) == (10 * total) \div n

\* SQLite ROUND(total / n, 1) in tenths: a half is rounded up
RoundHalfUp(total, n) == (20 * total + n) \div (2 * n)

\* Python round(total / n, 1) in tenths: a half that the float holds exactly
\* (n a power of two) is rounded to the even tenth
PyRound(total, n) ==
    LET q   == (10 * total) \div n
        rem == 10 * total - q * n
    IN  IF 2 * rem < n THEN q
        ELSE IF 2 * rem > n THEN q + 1
        ELSE IF q % 2 = 0 THEN q ELSE q + 1

Min(S) == CHOOSE x \in S : \A y \in S : x <= y
Max(S) == CHOOSE x \in S : \A y \in S : x >= y

\* one row of SELECT date, COUNT(*), ROUND(AVG(wind_speed), 1), MIN, MAX,
\* ROUND(AVG(wind_gust), 1), MAX(wind_gust), GROUP_CONCAT(DISTINCT
\* wind_direction) ... GROUP BY date; averages are in tenths
DailyRow(group, date) ==
    LET gusts == { row \in group : row.wind_gust # NoGust }
    IN  [date            |-> date,
         observations    |-> Cardinality(group),
         avg_wind_speed  |->
             RoundHalfUp(SumOver(group, [row \in group |-> row.wind_speed]),
                         Cardinality(group)),
         min_wind_speed  |-> Min({ row.wind_speed : row \in group }),
         max_wind_speed  |-> Max({ row.wind_speed : row \in group }),
         avg_gust        |->
             IF gusts = {} THEN NoGust
             ELSE RoundHalfUp(SumOver(gusts, [row \in gusts |-> row.wind_gust]),
                              Cardinality(gusts)),
         max_gust        |->
             IF gusts = {} THEN NoGust
             ELSE Max({ row.wind_gust : row \in gusts }),
         wind_directions |-> { row.wind_direction : row \in group }]

\* the query of export_daily_summary: ... WHERE station = ? GROUP BY date
\* ORDER BY date
SelectDaily(st) ==
    LET found  == { row \in table : row.station = st }
        groups == { DailyRow({ row \in found : row.date = date }, date) :
                      date \in { row.date : row \in found } }
    IN  OrderBy(groups, [g \in groups |-> g.date])

\* export_wind_data.aggregate_by_day over a list of records with 'date',
\* 'wind_speed' and 'wind_gust'; averages are in tenths
AggregateByDay(records) ==
    LET dated == { i \in 1..Len(records) : records[i].date # NoneStr }
        Day(date) ==
            LET speeds == { i \in dated : records[i].date = date }
                gusts  == { i \in speeds : records[i].wind_gust # NoGust
                                           /\ records[i].wind_gust # 0 }
            IN  [date         |-> date,
                 avg_speed    |->
                     PyRound(SumOver(speeds,
                                     [i \in speeds |-> records[i].wind_speed]),
                             Cardinality(speeds)),
                 max_speed    |-> Max({ records[i].wind_speed : i \in speeds }),
                 min_speed    |-> Min({ records[i].wind_speed : i \in speeds }),
                 avg_gust     |->
                     IF gusts = {} THEN NoGust
                     ELSE PyRound(SumOver(gusts,
                                     [i \in gusts |-> records[i].wind_gust]),
                                  Cardinality(gusts)),
                 max_gust     |->
                     IF gusts = {} THEN NoGust
                     ELSE Max({ records[i].wind_gust : i \in gusts }),
                 observations |-> Cardinality(speeds)]
        days == { Day(date) : date \in { records[i].date : i \in dated } }
    IN  OrderBy(days, [g \in days |-> g.date])

\* the report texts the collector stores before the exports read them
ExportBodies ==
    { << TimeTok(<<2, 8, 0, 8, 3, 0>>), WindTok("010", <<0, 5>>, <<>>, "KT") >>,
      << TimeTok(<<2, 8, 0, 9, 0, 0>>),
         WindTok("020", <<1, 0>>, <<2, 0>>, "KT") >>,
      << TimeTok(<<2, 8, 0, 9, 3, 0>>), WindTok("030", <<1, 5>>, <<>>, "KT") >>,
      << TimeTok(<<2, 8, 0, 9, 4, 5>>), WindTok("VRB", <<0, 3>>, <<>>, "KT") >>,
      << TimeTok(<<0, 1, 0, 6, 0, 0>>), WindTok("360", <<1, 2>>, <<>>, "KT") >> }

\* the start_date and end_date arguments of the exports
ExportDates == { NoneStr, <<2025, 2, 28>>, <<2025, 3, 1>> }

\* no call of export_data.py is under way
NoExport == script = "none"

\* export_to_csv(output_file, station, start_date, end_date): the file is
\* written only when there are rows
ExportToCsv(st, start_date, end_date) ==
    /\ NoExport
    /\ script' = "export_to_csv"
    /\ params' = [station |-> st, start_date |-> start_date,
                  end_date |-> end_date]
    /\ rows' = SelectRows(st, start_date, end_date)
    /\ output_file' = IF Len(rows') = 0 THEN NotWritten ELSE Written(rows')
    /\ UNCHANGED <<now, collectorVars, wind_data, json_file, daily_data,
                   synopVars,
                   fetchVars>>

\* export_to_json(output_file, station, start_date, end_date): the same query
ExportToJson(st, start_date, end_date) ==
    /\ NoExport
    /\ script' = "export_to_json"
    /\ params' = [station |-> st, start_date |-> start_date,
                  end_date |-> end_date]
    /\ rows' = SelectRows(st, start_date, end_date)
    /\ output_file' = IF Len(rows') = 0 THEN NotWritten ELSE Written(rows')
    /\ UNCHANGED <<now, collectorVars, wind_data, json_file, daily_data,
                   synopVars,
                   fetchVars>>

\* export_daily_summary(output_file, station)
ExportDailySummary(st) ==
    /\ NoExport
    /\ script' = "export_daily_summary"
    /\ params' = [station |-> st, start_date |-> NoneStr, end_date |-> NoneStr]
    /\ daily_data' = SelectDaily(st)
    /\ output_file' = IF Len(daily_data') = 0 THEN NotWritten
                     ELSE Written(daily_data')
    /\ UNCHANGED <<now, collectorVars, wind_data, json_file, rows, synopVars,
                   fetchVars>>

\* aggregate_by_day(wind_data) over the records export_to_json has written
AggregateExported ==
    /\ script = "export_to_json"
    /\ output_file.written
    /\ script' = "aggregate_by_day"
    /\ daily_data' = AggregateByDay(output_file.content)
    /\ UNCHANGED <<now, collectorVars, wind_data, json_file, params, rows,
                   output_file, synopVars,
                   fetchVars>>

\* the call returns and its process ends
ExportReturn ==
    /\ script \in {"export_to_csv", "export_to_json", "export_daily_summary",
                   "aggregate_by_day"}
    /\ script' = "none"
    /\ params' = None
    /\ rows' = <<>>
    /\ daily_data' = <<>>
    /\ output_file' = NotWritten
    /\ UNCHANGED <<now, collectorVars, wind_data, json_file, synopVars,
                   fetchVars>>

InitExport == now = DateTime(2025, 3, 5, 0, 0) /\ InitRest

\* collector runs and, between them, calls of export_data.py
NextExport ==
    \/ NoExport /\ RunFetchFailed(Main)
    \/ NoExport /\ RunFetchParse(Main, {STATIONS[1]}, ExportBodies)
    \/ NoExport /\ RunFetchParse(Main, {STATIONS[2]}, WindBodies)
    \/ NoExport /\ InsertStep(Main)
    \/ NoExport /\ Commit(Main)
    \/ NoExport /\ StoreFailure(Main)
    \/ NoExport /\ Stats(Main)
    \/ \E st \in RunStations : \E start_date \in ExportDates :
          \E end_date \in ExportDates :
             \/ ExportToCsv(st, start_date, end_date)
             \/ ExportToJson(st, start_date, end_date)
    \/ \E st \in RunStations : ExportDailySummary(st)
    \/ AggregateExported
    \/ ExportReturn

SpecExport == InitExport /\ [][NextExport]_vars

(***************************************************************************)
(* export_wind_data.py: SYNOP reports.  A group of a SYNOP message is the  *)
(* sequence of its characters.                                             *)
(***************************************************************************)
DigitChars == <<"0", "1", "2", "3", "4", "5", "6", "7", "8", "9">>

\* str.isdigit() of one character
IsDigit(char) == \E i \in 1..10 : DigitChars[i] = char

\* str.isdigit() of a string: every character a digit, at least one
AllDigits(chars) ==
    Len(chars) > 0 /\ \A i \in 1..Len(chars) : IsDigit(chars[i])

\* int() of a string of digit characters
IntOf(chars) ==
    DigitsToInt([i \in 1..Len(chars) |->
                    (CHOOSE d \in 1..10 : DigitChars[d] = chars[i]) - 1])

\* self.synop_block
synop_block == <<"6", "0", "0", "0", "7">>

\* round(speed * 1.94384, 1), in tenths of a knot
MpsToKnots(speed) == (speed * 194384 + 5000) \div 10000

\* round(speed_kt * 1.852, 1) for a speed in tenths of a knot, in tenths
KnotsToKmh(tenths) == (tenths * 1852 + 500) \div 1000

\* the wind group Nddff or /ddff: direction in degrees and speed, None when
\* the group has another form or its figures are out of range
SynopWindGroup(wind_group) ==
    LET figures == IF Len(wind_group) = 5 /\ wind_group[1] = "/"
                   THEN SubSeq(wind_group, 2, 5)
                   ELSE IF Len(wind_group) = 5 /\ AllDigits(wind_group)
                   THEN SubSeq(wind_group, 2, 5)
                   ELSE <<>>
    IN  IF Len(figures) = 4 /\ AllDigits(figures)
           /\ IntOf(SubSeq(figures, 1, 2)) <= 36
        THEN [wind_direction |-> IntOf(SubSeq(figures, 1, 2)) * 10,
              wind_speed     |-> IntOf(SubSeq(figures, 3, 4))]
        ELSE None

\* the gust of section 3: the last two characters of the first group 91xff
\* after the first group 333; None when there is none or int() refuses them
SynopGust(groups) ==
    LET section3_idx == FirstMatch({ i \in 1..Len(groups) :
                                       groups[i] = <<"3", "3", "3">> })
        gust_idx     == FirstMatch({ i \in 1..Len(groups) :
                                       /\ section3_idx # 0
                                       /\ i > section3_idx
                                       /\ Len(groups[i]) = 5
                                       /\ groups[i][1] = "9"
                                       /\ groups[i][2] = "1" })
    IN  IF gust_idx = 0 THEN NoGust
        ELSE IF AllDigits(SubSeq(groups[gust_idx], 4, 5))
        THEN IntOf(SubSeq(groups[gust_idx], 4, 5))
        ELSE NoGust

\* METARWindExtractor.parse_wind_data; speeds are in tenths, local time is
\* that of a winter date (Atlantic/Canary is UTC then)
SynopParseWindData(synop_obs) ==
    LET groups      == synop_obs.synop
        station_idx == FirstMatch({ i \in 1..Len(groups) :
                                      groups[i] = synop_block })
        wind_in_mps ==
            /\ station_idx + 1 <= Len(groups)
            /\ Len(groups[station_idx + 1]) >= 2
            /\ groups[station_idx + 1][2] = "1"
        wind        == IF station_idx + 2 <= Len(groups)
                       THEN SynopWindGroup(groups[station_idx + 2])
                       ELSE None
        wind_gust   == SynopGust(groups)
        speed_kt    == IF wind_in_mps THEN MpsToKnots(wind.wind_speed)
                       ELSE 10 * wind.wind_speed
        gust_kt     == IF wind_in_mps
                       THEN (IF wind_gust # NoGust /\ wind_gust # 0
                             THEN MpsToKnots(wind_gust) ELSE NoGust)
                       ELSE (IF wind_gust # NoGust THEN 10 * wind_gust
                             ELSE NoGust)
        utc         == DateTime(synop_obs.year, synop_obs.month, synop_obs.day,
                                synop_obs.hour, synop_obs.minute)
    IN  IF station_idx = 0 THEN None
        ELSE IF wind = None THEN None
        ELSE IF ~ValidDate(synop_obs.year, synop_obs.month, synop_obs.day,
                           synop_obs.hour, synop_obs.minute) THEN None
        ELSE [synop               |-> groups,
              datetime_utc        |-> Isoformat(utc),
              datetime_local      |-> Isoformat(utc) \o <<"WET">>,
              wind_direction      |-> IF wind.wind_direction # 0
                                      THEN wind.wind_direction ELSE -1,
              sustained_speed_kt  |-> speed_kt,
              sustained_speed_kmh |-> KnotsToKmh(speed_kt),
              gust_speed_kt       |-> gust_kt,
              gust_speed_kmh      |-> IF gust_kt # NoGust /\ gust_kt # 0
                                      THEN KnotsToKmh(gust_kt) ELSE NoGust,
              unit                |-> IF wind_in_mps THEN "MPS" ELSE "KT"]

\* for synop_obs, year, month in synop_data: parsed = parse_wind_data(...);
\* if parsed and parsed.get('datetime_utc'): wind_data.append(parsed)
RECURSIVE SynopParseEach(_)
SynopParseEach(data) ==
    IF Len(data) = 0 THEN <<>>
    ELSE LET parsed == SynopParseWindData(Head(data))
         IN  (IF parsed = None THEN <<>> ELSE <<parsed>>)
                 \o SynopParseEach(Tail(data))

\* a sort that puts a record before the records of its key
RECURSIVE SortByUtcUnstable(_)
SortByUtcUnstable(xs) ==
    IF Len(xs) = 0 THEN <<>>
    ELSE LET front == SortByUtcUnstable(SubSeq(xs, 1, Len(xs) - 1))
             x     == xs[Len(xs)]
             k     == Cardinality({ i \in 1..Len(front) :
                         StrLess(front[i].datetime_utc, x.datetime_utc) })
         IN  SubSeq(front, 1, k) \o <<x>> \o SubSeq(front, k + 1, Len(front))

\* wind_data.sort(key=lambda x: x['datetime_utc'] ...): stable, ascending
RECURSIVE SortByUtc(_)
SortByUtc(xs) ==
    IF Len(xs) = 0 THEN <<>>
    ELSE LET front == SortByUtc(SubSeq(xs, 1, Len(xs) - 1))
             x     == xs[Len(xs)]
             k     == Cardinality({ i \in 1..Len(front) :
                         ~StrLess(x.datetime_utc, front[i].datetime_utc) })
         IN  SubSeq(front, 1, k) \o <<x>> \o SubSeq(front, k + 1, Len(front))

\* remove duplicates based on datetime: the first record of a datetime stays
RECURSIVE UniqueByUtc(_, _)
UniqueByUtc(xs, seen_datetimes) ==
    IF Len(xs) = 0 THEN <<>>
    ELSE IF Head(xs).datetime_utc \in seen_datetimes
    THEN UniqueByUtc(Tail(xs), seen_datetimes)
    ELSE <<Head(xs)>>
            \o UniqueByUtc(Tail(xs),
                           seen_datetimes \cup {Head(xs).datetime_utc})

\* a SYNOP observation as _parse_synop_response builds it
SynopObs(month, day, hour, synop) ==
    [block |-> synop_block, year |-> 2025, month |-> month, day |-> day,
     hour |-> hour, minute |-> 0, synop |-> synop]

\* wind in m/s: 110 degrees, 5 m/s, no section 3
MpsNoGust ==
    << synop_block, <<"0", "1", "/", "/", "/">>, <<"/", "1", "1", "0", "5">> >>

\* the observations OGIMET returns for block 60007
SynopObservations ==
    { SynopObs(1, 1, 6, MpsNoGust),
      \* the same hour again: wind in knots, 120 degrees 10 kt, gust 20 kt
      SynopObs(1, 1, 6,
               << synop_block, <<"0", "4", "/", "/", "/">>,
                  <<"3", "1", "2", "1", "0">>, <<"3", "3", "3">>,
                  <<"9", "1", "1", "2", "0">> >>),
      \* an earlier hour: wind in m/s, calm direction, 10 m/s, gust 15 m/s
      SynopObs(1, 1, 3,
               << synop_block, <<"0", "1", "/", "/", "/">>,
                  <<"8", "0", "0", "1", "0">>, <<"3", "3", "3">>,
                  <<"9", "1", "0", "1", "5">> >>),
      \* that hour again: wind in m/s, 7 m/s, gust group 91000
      SynopObs(1, 1, 3,
               << synop_block, <<"0", "1", "/", "/", "/">>,
                  <<"/", "1", "1", "0", "7">>, <<"3", "3", "3">>,
                  <<"9", "1", "0", "0", "0">> >>),
      \* a date that is none
      SynopObs(2, 30, 6, MpsNoGust),
      \* no wind figures
      SynopObs(1, 1, 6,
               << synop_block, <<"0", "1", "/", "/", "/">>,
                  <<"/", "/", "/", "/", "/">> >>),
      \* wind-unit indicator 0 (calm), wind group 360 degrees 5
      SynopObs(1, 1, 9,
               << synop_block, <<"0", "0", "/", "/", "/">>,
                  <<"/", "3", "6", "0", "5">> >>) }

\* export_wind_data.main
SynopMain(data) ==
    /\ NoExport
    /\ pc[Main] \notin {"insert", "commit"}
    /\ synop_data' = data
    /\ LET parsed == SynopParseEach(data)
       IN  IF Len(data) = 0
           THEN /\ script' = "synop_fetch_failed"
                /\ wind_data' = <<>>
                /\ unique_wind_data' = <<>>
                /\ output_file' = NotWritten
           ELSE IF Len(parsed) = 0
           THEN /\ script' = "synop_no_wind_data"
                /\ wind_data' = <<>>
                /\ unique_wind_data' = <<>>
                /\ output_file' = NotWritten
           ELSE /\ script' = "synop_exported"
                /\ wind_data' = SortByUtc(parsed)
                /\ unique_wind_data' = UniqueByUtc(wind_data', {})
                /\ output_file' = Written(unique_wind_data')
    /\ UNCHANGED <<now, collectorVars, json_file, params, rows, daily_data,
                   fetchVars>>

\* main returns and the process ends
SynopReturn ==
    /\ script \in {"synop_fetch_failed", "synop_no_wind_data", "synop_exported"}
    /\ script' = "none"
    /\ wind_data' = <<>>
    /\ unique_wind_data' = <<>>
    /\ synop_data' = <<>>
    /\ output_file' = NotWritten
    /\ UNCHANGED <<now, collectorVars, json_file, params, rows, daily_data,
                   fetchVars>>

\* the lists fetch_metar may return
SynopLists == UNION { [1..n -> SynopObservations] : n \in 0..MaxBatch }

InitSynop == now = DateTime(2025, 1, 1, 0, 0) /\ InitRest

\* runs of export_wind_data.py and, between them, collector runs with their
\* calls of store_observations
NextSynop ==
    \/ \E data \in SynopLists : SynopMain(data)
    \/ SynopReturn
    \/ NoExport /\ RunFetchParse(Main, {STATIONS[1]}, WindBodies)
    \/ NoExport /\ InsertStep(Main)
    \/ NoExport /\ Commit(Main)
    \/ NoExport /\ StoreFailure(Main)
    \/ NoExport /\ Stats(Main)

SpecSynop == InitSynop /\ [][NextSynop]_vars

(***************************************************************************)
(* The report tokenizers: parse_ogimet_response of fetch_ogimet_data.py    *)
(* and extract_metars_from_text of process_manual_metars.py.  A text is    *)
(* the sequence of its lines, a line the sequence of its tokens; joining   *)
(* with ' '.join(text.split()) is concatenating the tokens.                *)
(***************************************************************************)
\* longest text, in lines
MaxLines == 3

\* the tokens of all lines, in order
RECURSIVE Flatten(_)
Flatten(lines) ==
    IF Len(lines) = 0 THEN <<>> ELSE Head(lines) \o Flatten(Tail(lines))

\* 'GCGM' in s, 'METAR' in s, re.search(r'\d{6}Z', s), '<' in s and '>' in s
ContainsWord(toks, text) == \E i \in 1..Len(toks) : toks[i] = Word(text)
ContainsTime(toks) == \E i \in 1..Len(toks) : toks[i].kind = "time"
IsMarkup(toks) == ContainsWord(toks, "</pre>")

\* re.findall(r'(GCGM\s+\d{6}Z.*?)(?=GCGM\s+\d{6}Z|$)', html_text, DOTALL):
\* a match starts at each GCGM that a DDHHMMZ token follows and ends before
\* the next one, or at the end of the text
OgimetFindall(toks) ==
    LET starts == { i \in 1..(Len(toks) - 1) :
                      toks[i] = Word("GCGM") /\ toks[i + 1].kind = "time" }
        End(i) == IF \E j \in starts : j > i
                  THEN (CHOOSE j \in starts :
                           j > i /\ \A k \in starts : k > i => j <= k) - 1
                  ELSE Len(toks)
        Nth[n \in 1..Cardinality(starts)] ==
            CHOOSE i \in starts : Cardinality({ j \in starts : j <= i }) = n
    IN  [n \in 1..Cardinality(starts) |-> SubSeq(toks, Nth[n], End(Nth[n]))]

\* parse_ogimet_response up to its list metars: the matches of the pattern,
\* and when there are none the lines with GCGM and a DDHHMMZ token
OgimetMetars(lines) ==
    LET matches == OgimetFindall(Flatten(lines))
        IsReport(line) == ContainsWord(line, "GCGM") /\ ContainsTime(line)
    IN  IF Len(matches) > 0 THEN matches ELSE SelectSeq(lines, IsReport)

\* the loop of extract_metars_from_text over the lines: a line with GCGM,
\* METAR or a DDHHMMZ token closes the report gathered so far when that has
\* GCGM in it, and is added to the gathered lines; another line is added when
\* lines are being gathered; at the end the gathered report is closed
RECURSIVE ManualGather(_, _)
ManualGather(lines, current_metar) ==
    IF Len(lines) = 0
    THEN (IF Len(current_metar) > 0 /\ ContainsWord(current_metar, "GCGM")
          THEN <<current_metar>> ELSE <<>>)
    ELSE LET line == Head(lines)
         IN  IF Len(line) = 0 \/ IsMarkup(line)
             THEN ManualGather(Tail(lines), current_metar)
             ELSE IF \/ ContainsWord(line, "GCGM")
                     \/ ContainsWord(line, "METAR")
                     \/ ContainsTime(line)
             THEN IF Len(current_metar) > 0
                     /\ ContainsWord(current_metar, "GCGM")
                  THEN <<current_metar>> \o ManualGather(Tail(lines), line)
                  ELSE ManualGather(Tail(lines), current_metar \o line)
             ELSE IF Len(current_metar) > 0
             THEN ManualGather(Tail(lines), current_metar \o line)
             ELSE ManualGather(Tail(lines), current_metar)

\* extract_metars_from_text up to its list cleaned_metars
ManualCleanedMetars(lines) ==
    LET IsReport(metar) == ContainsWord(metar, "GCGM") /\ ContainsTime(metar)
    IN  SelectSeq(ManualGather(lines, <<>>), IsReport)

\* the lines of the texts: two reports, a report with COR after the station,
\* a line of remarks, a line of markup
TextLines ==
    { << Word("GCGM"), TimeTok(<<2, 8, 0, 8, 3, 0>>),
         WindTok("010", <<0, 5>>, <<>>, "KT") >>,
      << Word("GCGM"), TimeTok(<<2, 8, 0, 9, 0, 0>>),
         WindTok("020", <<1, 0>>, <<2, 0>>, "KT") >>,
      << Word("GCGM"), Word("COR"), TimeTok(<<2, 8, 0, 9, 3, 0>>),
         WindTok("030", <<1, 5>>, <<>>, "KT") >>,
      << Word("RMK") >>,
      << Word("</pre>") >> }

Texts == UNION { [1..n -> TextLines] : n \in 0..MaxLines }

\* unique_metars = parse_ogimet_response(html_text)
ParseOgimetResponse ==
    /\ script = "none"
    /\ script' = "parse_ogimet_response"
    /\ metars' = [metars EXCEPT ![Main] = OgimetMetars(html_text)]
    /\ unique_metars' = UniqueMetars(metars'[Main], {})
    /\ UNCHANGED <<now, table, lock, pc, station, observations, idx,
                   new_count, duplicate_count, pending, db_stats, wind_data,
                   json_file, exportVars, synopVars, loop, html_text>>

\* unique_metars = extract_metars_from_text(text), text being html_text
ExtractMetarsFromText ==
    /\ script = "none"
    /\ script' = "extract_metars_from_text"
    /\ metars' = [metars EXCEPT ![Main] = ManualCleanedMetars(html_text)]
    /\ unique_metars' = UniqueMetars(metars'[Main], {})
    /\ UNCHANGED <<now, table, lock, pc, station, observations, idx,
                   new_count, duplicate_count, pending, db_stats, wind_data,
                   json_file, exportVars, synopVars, loop, html_text>>

\* a tokenizer is called on a text
InitTokenize ==
    /\ now = DateTime(2025, 3, 5, 0, 0)
    /\ InitStore
    /\ html_text \in Texts

NextTokenize == ParseOgimetResponse \/ ExtractMetarsFromText

SpecTokenize == InitTokenize /\ [][NextTokenize]_vars

(***************************************************************************)
(* The chunked fetch loops: fetch_ogimet_metar of fetch_ogimet_data.py and *)
(* METARWindExtractor.fetch_metar of export_wind_data.py.  A datetime is   *)
(* the number of its minutes since 2024-01-01T00:00.                       *)
(***************************************************************************)
max_days_per_request == 31

\* timedelta(days=n), in minutes
Days(n) == n * 24 * 60

\* a chunk that always spans max_days_per_request days
CurrentEndUnclipped(current_start, end_date) ==
    current_start + Days(max_days_per_request)

\* current_end = min(current_start + timedelta(days=max_days_per_request),
\*                   end_date)
CurrentEnd(current_start, end_date) ==
    IF current_start + Days(max_days_per_request) < end_date
    THEN current_start + Days(max_days_per_request)
    ELSE end_date

\* the instant a request parameter names: strftime('%Y%m%d%H') drops the
\* minutes, strftime('%Y%m%d%H%M') keeps them
Strftime(fn, t) ==
    IF fn = "fetch_ogimet_metar" THEN (t \div 60) * 60 ELSE t

\* the ranges the loops are called with: one minute, 31 days, 31 days and a
\* minute, 75 days and a half, the year of export_wind_data.main, and an
\* empty range
FetchRanges ==
    LET from == Minutes(DateTime(2025, 1, 1, 0, 0))
    IN  { <<from, from + 1>>,
          <<from, from + Days(31)>>,
          <<from, from + Days(31) + 1>>,
          <<from + 30, from + Days(75) + 12 * 60>>,
          <<from, Minutes(DateTime(2025, 12, 31, 23, 59))>>,
          <<from, from>> }

FetchFunctions == {"fetch_ogimet_metar", "fetch_metar"}

\* the call, up to the first test of the while loop
FetchCall(fn, start_date, end_date) ==
    /\ loop = None
    /\ loop' = [fn |-> fn, start_date |-> start_date, end_date |-> end_date,
                current_start |-> start_date, chunks |-> <<>>,
                all_data |-> <<>>,
                pc |-> IF start_date < end_date THEN "while" ELSE "returned"]
    /\ UNCHANGED <<now, collectorVars, scriptVars, exportVars, synopVars,
                   html_text, unique_metars>>

\* one iteration of the while loop, the request answered (ok) or raising an
\* Exception that the except clause prints, and the test that follows it
FetchChunk(ok) ==
    /\ loop # None
    /\ loop.pc = "while"
    /\ LET current_end == CurrentEnd(loop.current_start, loop.end_date)
           chunk == [current_start |-> loop.current_start,
                     current_end |-> current_end,
                     begin |-> Strftime(loop.fn, loop.current_start),
                     end |-> Strftime(loop.fn, current_end),
                     ok |-> ok]
       IN  loop' = [loop EXCEPT
                      !.chunks = Append(@, chunk),
                      !.all_data = IF ok THEN Append(@, loop.current_start)
                                   ELSE @,
                      !.current_start = current_end,
                      !.pc = IF current_end < loop.end_date THEN "while"
                             ELSE "returned"]
    /\ UNCHANGED <<now, collectorVars, scriptVars, exportVars, synopVars,
                   html_text, unique_metars>>

NextFetch ==
    \/ \E fn \in FetchFunctions : \E range \in FetchRanges :
          FetchCall(fn, range[1], range[2])
    \/ FetchChunk(TRUE)
    \/ FetchChunk(FALSE)

SpecFetch == InitExport /\ [][NextFetch]_vars

\* the process that runs the loop is scheduled: a request returns or raises
\* within its timeout, and the sleeps between requests end
SpecFetchFair ==
    /\ InitExport
    /\ [][NextFetch]_vars
    /\ WF_vars(FetchChunk(TRUE) \/ FetchChunk(FALSE))

(***************************************************************************)
(* The three METAR wind extractors, each called on one report.             *)
(***************************************************************************)
\* wind groups as they stand in reports
WindGroups ==
    { WindTok("010", <<0, 5>>, <<>>, "KT"),
      WindTok("020", <<1, 0>>, <<2, 0>>, "KT"),
      WindTok("VRB", <<0, 3>>, <<>>, "KT"),
      WindTok("270", <<1, 0, 0>>, <<1, 2, 0>>, "KT"),
      WindTok("010", <<0, 5>>, <<>>, "MPS"),
      WindTok("360", <<1, 2>>, <<1, 8>>, "KPH"),
      WindTok("999", <<0, 5>>, <<>>, "KT") }

\* DDHHMMZ tokens: an evening, a first of the month, a 31st
ResolveTokens ==
    { <<2, 8, 1, 8, 3, 0>>, <<0, 1, 0, 6, 0, 0>>, <<3, 1, 0, 8, 3, 0>> }

\* reports of GCGM: with one wind group, with a second one in the remarks,
\* with none, with other DDHHMMZ tokens, with a visibility of 2000 m, with a
\* two-digit group after it, and with a full date before the report
ParseReports ==
    LET head == << Word(STATIONS[1]), TimeTok(<<2, 8, 0, 8, 3, 0>>) >>
        wind == WindTok("010", <<0, 5>>, <<>>, "KT")
    IN  { head \o <<w>> : w \in WindGroups }
        \cup { head \o <<w1, Word("RMK"), w2>> :
                 w1 \in WindGroups, w2 \in WindGroups }
        \cup { head \o <<Word("GARBAGE")>> }
        \cup { << Word(STATIONS[1]), TimeTok(digits), wind >> :
                 digits \in ResolveTokens }
        \cup { head \o << wind, NumTok(<<2, 0, 0, 0>>) >>,
               head \o << wind, NumTok(<<2, 0, 0, 0>>), NumTok(<<0, 6>>) >>,
               << FullDateTok(2024, 2, 29, 8, 30) >> \o head \o <<wind>> }

\* obs = collector.parse_metar(metar_text)
ParseMetarCall(metar_text) ==
    /\ script' = "parse_metar"
    /\ metars' = [metars EXCEPT ![Main] = <<metar_text>>]
    /\ observations' = [observations EXCEPT ![Main] =
                           ParseAll(STATIONS[1], <<metar_text>>)]
    /\ wind_data' = <<>>
    /\ UNCHANGED <<now, table, lock, pc, station, idx, new_count,
                   duplicate_count, pending, db_stats, json_file, exportVars,
                   synopVars, fetchVars>>

\* parsed = fetch_ogimet_data.parse_wind_data(metar_text)
OgimetParseCall(metar_text) ==
    /\ script' = "parse_wind_data"
    /\ metars' = [metars EXCEPT ![Main] = <<metar_text>>]
    /\ observations' = [observations EXCEPT ![Main] = <<>>]
    /\ wind_data' = OgimetParseEach(<<metar_text>>)
    /\ UNCHANGED <<now, table, lock, pc, station, idx, new_count,
                   duplicate_count, pending, db_stats, json_file, exportVars,
                   synopVars, fetchVars>>

\* wind_record = fetch_checkwx_data.parse_checkwx_metar(metar_text)
CheckwxParseCall(metar_text) ==
    /\ script' = "parse_checkwx_metar"
    /\ metars' = [metars EXCEPT ![Main] = <<metar_text>>]
    /\ observations' = [observations EXCEPT ![Main] = <<>>]
    /\ wind_data' = CheckwxParseEach(<<metar_text>>)
    /\ UNCHANGED <<now, table, lock, pc, station, idx, new_count,
                   duplicate_count, pending, db_stats, json_file, exportVars,
                   synopVars, fetchVars>>

\* process_manual_metars.parse_wind_data: a full date in the text is taken as
\* it stands; else a token 20dd in the text is the year and a token 01..12
\* the month (the clock's month when there is none); else the rollover rule
ManualParseWindData(metar_text) ==
    LET hits(P(_)) == FirstMatch({ i \in 1..Len(metar_text) : P(metar_text[i]) })
        IsFullDate(tok) == tok.kind = "fulldate"
        IsYear(tok) == /\ tok.kind = "number"
                       /\ Len(tok.digits) = 4
                       /\ tok.digits[1] = 2 /\ tok.digits[2] = 0
        IsMonth(tok) == /\ tok.kind = "number"
                        /\ Len(tok.digits) = 2
                        /\ DigitsToInt(tok.digits) \in 1..12
        w == hits(OgimetWindPattern)
        t == hits(TimePattern)
        f == hits(IsFullDate)
        y == hits(IsYear)
        m == hits(IsMonth)
        obs_time == metar_text[t].digits
        day    == IF f # 0 THEN metar_text[f].day
                  ELSE DigitsToInt(SubSeq(obs_time, 1, 2))
        hour   == IF f # 0 THEN metar_text[f].hour
                  ELSE DigitsToInt(SubSeq(obs_time, 3, 4))
        minute == IF f # 0 THEN metar_text[f].minute
                  ELSE DigitsToInt(SubSeq(obs_time, 5, 6))
        year   == IF f # 0 THEN metar_text[f].year
                  ELSE IF y # 0 THEN DigitsToInt(metar_text[y].digits)
                  ELSE IF day > now.day
                  THEN (IF now.month = 1 THEN now.year - 1 ELSE now.year)
                  ELSE now.year
        month  == IF f # 0 THEN metar_text[f].month
                  ELSE IF y # 0
                  THEN (IF m # 0 THEN DigitsToInt(metar_text[m].digits)
                        ELSE now.month)
                  ELSE IF day > now.day
                  THEN (IF now.month = 1 THEN 12 ELSE now.month - 1)
                  ELSE now.month
        parsed == /\ f # 0 \/ t # 0
                  /\ ValidDate(year, month, day, hour, minute)
    IN  IF w = 0 THEN None
        ELSE [metar            |-> metar_text,
              observation_time |-> IF t # 0 THEN obs_time ELSE NoneStr,
              datetime         |->
                  IF parsed
                  THEN Isoformat(DateTime(year, month, day, hour, minute))
                  ELSE NoneStr,
              date             |->
                  IF parsed
                  THEN DateStr(DateTime(year, month, day, hour, minute))
                  ELSE NoneStr,
              wind_direction   |-> metar_text[w].direction,
              wind_speed       |-> DigitsToInt(metar_text[w].speed),
              wind_gust        |-> IF Len(metar_text[w].gust) > 0
                                   THEN DigitsToInt(metar_text[w].gust)
                                   ELSE NoGust,
              unit             |-> metar_text[w].unit,
              timestamp        |-> Isoformat(now)]

\* parsed = process_manual_metars.parse_wind_data(metar)
ManualParseCall(metar_text) ==
    /\ script' = "manual_parse_wind_data"
    /\ metars' = [metars EXCEPT ![Main] = <<metar_text>>]
    /\ observations' = [observations EXCEPT ![Main] = <<>>]
    /\ wind_data' = LET parsed == ManualParseWindData(metar_text)
                    IN  IF parsed = None THEN <<>> ELSE <<parsed>>
    /\ UNCHANGED <<now, table, lock, pc, station, idx, new_count,
                   duplicate_count, pending, db_stats, json_file, exportVars,
                   synopVars, fetchVars>>

\* chatgpt.py: (VRB|\d{3})(\d{2})(G(\d{2}))?KT, for the groups of WindGroups
\* (a group with a three-digit speed and a gust has no match)
ChatgptWindRe(tok) ==
    /\ tok.kind = "wind"
    /\ tok.unit = "KT"
    /\ Len(tok.speed) = 2
    /\ Len(tok.gust) \in {0, 2}

\* datetime.strptime(token, "%d%H%MZ") raises ValueError unless this holds
\* (the date it builds is in January 1900)
StrptimeAccepts(digits) ==
    /\ DigitsToInt(SubSeq(digits, 1, 2)) \in 1..31
    /\ DigitsToInt(SubSeq(digits, 3, 4)) \in 0..23
    /\ DigitsToInt(SubSeq(digits, 5, 6)) \in 0..59

\* a < b for two datetimes
Before(a, b) == StrLess(Isoformat(a), Isoformat(b))

\* chatgpt.py, the body of its loop for one line of the response with end_dt
\* the clock: the token is read as a day of January of end_dt's year, and of
\* the year before when that is later than end_dt; the row is kept when its
\* hour lies within START_HOUR..END_HOUR
ChatgptLine(line) ==
    /\ metars' = [metars EXCEPT ![Main] = <<line>>]
    /\ observations' = [observations EXCEPT ![Main] = <<>>]
    /\ LET t == FirstMatch({ i \in 1..Len(line) : TimePattern(line[i]) })
           w == FirstMatch({ i \in 1..Len(line) : ChatgptWindRe(line[i]) })
           digits == line[t].digits
           january == DateTime(now.year,
                               1,
                               DigitsToInt(SubSeq(digits, 1, 2)),
                               DigitsToInt(SubSeq(digits, 3, 4)),
                               DigitsToInt(SubSeq(digits, 5, 6)))
           obs_time == IF Before(now, january)
                       THEN [january EXCEPT !.year = now.year - 1]
                       ELSE january
       IN  IF t = 0 \/ w = 0
           THEN script' = "chatgpt" /\ wind_data' = <<>>
           ELSE IF ~StrptimeAccepts(digits)
           THEN script' = "chatgpt_ValueError" /\ wind_data' = <<>>
           ELSE /\ script' = "chatgpt"
                /\ wind_data' =
                      IF obs_time.hour >= 3 /\ obs_time.hour <= 11
                      THEN << [date           |-> DateStr(obs_time),
                               time_canary    |-> <<obs_time.hour,
                                                    obs_time.minute>>,
                               wind_direction |-> line[w].direction,
                               wind_speed_kt  |-> DigitsToInt(line[w].speed),
                               wind_gust_kt   |->
                                   IF Len(line[w].gust) > 0
                                   THEN DigitsToInt(line[w].gust)
                                   ELSE NoGust] >>
                      ELSE <<>>
    /\ UNCHANGED <<now, table, lock, pc, station, idx, new_count,
                   duplicate_count, pending, db_stats, json_file, exportVars,
                   synopVars, fetchVars>>

NextParse ==
    \/ \E metar_text \in ParseReports : ParseMetarCall(metar_text)
    \/ \E metar_text \in ParseReports : OgimetParseCall(metar_text)
    \/ \E metar_text \in ParseReports : CheckwxParseCall(metar_text)
    \/ \E metar_text \in ParseReports : ManualParseCall(metar_text)
    \/ \E line \in ParseReports : ChatgptLine(line)

SpecParse == Init /\ [][NextParse]_vars

(***************************************************************************)
(* Properties.                                                             *)
(***************************************************************************)
\* two records stand for the same observation: same station, same instant
SameInstant(a, b) == a.station = b.station /\ a.datetime = b.datetime

\* the rows of a set that hold the instant of an observation
RowsAt(stored, obs) == { row \in stored : SameInstant(row, obs) }

\* the step is an iteration of the for loop of store_observations by p
InsertStepBy(p) ==
    /\ pc[p] = "insert"
    /\ \/ new_count'[p] # new_count[p]
       \/ duplicate_count'[p] # duplicate_count[p]

\* the step is the commit of store_observations by p
CommitBy(p) == pc[p] = "commit" /\ pc'[p] = "stats"

\* C1: whatever calls of store_observations were made, for whatever stations
\* and batches, the table never holds two rows with the same station and the
\* same resolved datetime.
C1_UniqueStationDatetime ==
    \A r1 \in table : \A r2 \in table : SameInstant(r1, r2) => r1 = r2

\* C1: a call has met a duplicate and has returned, the table holds two rows
\* of one station
C1_Witness ==
    /\ \E p \in Writers : pc[p] = "stats" /\ duplicate_count[p] > 0
    /\ \E r1 \in table : \E r2 \in table :
          r1 # r2 /\ r1.station = r2.station

\* C2: storing an observation whose station and resolved datetime are already
\* in the table adds no row (neither to the transaction nor, at its commit, to
\* the table, which stays as the first call left it), and after the call
\* exactly one row holds that station and datetime.
C2_IdempotentInsert ==
    /\ [][\A p \in Writers :
            /\ (InsertStepBy(p) /\ RowsAt(table, observations[p][idx[p]]) # {})
                  => /\ pending'[p] = pending[p]
                     /\ new_count'[p] = new_count[p]
                     /\ table' = table
            /\ (CommitBy(p) /\ new_count[p] = 0) => table' = table]_vars
    /\ [](\A p \in Writers : pc[p] = "stats" =>
            \A i \in 1..Len(observations[p]) :
                Cardinality(RowsAt(table, observations[p][i])) = 1)

\* C2: a call whose observations were all stored before has returned
C2_Witness ==
    \E p \in Writers :
        /\ pc[p] = "stats"
        /\ Len(observations[p]) > 0
        /\ new_count[p] = 0
        /\ duplicate_count[p] = Len(observations[p])
        /\ \A i \in 1..Len(observations[p]) : observations[p][i] \in table

\* the instants of a list of observations
Instants(obs) == { obs[i].datetime : i \in 1..Len(obs) }

\* the instants of the batches of the calls for a station that have returned
StoredInstants(st) ==
    UNION { Instants(observations[p]) :
              p \in { q \in Writers : pc[q] = "stats" /\ station[q] = st } }

\* C3: once two overlapping batches of one station are stored, in whichever
\* order their inserts and commits came, the number of rows of the station is
\* the number of distinct instants of the two batches together.
C3_CountIsDistinctInstants ==
    (\A p \in Writers : pc[p] \in {"idle", "stats", "raised"}) =>
        \A st \in RunStations :
            Cardinality({ row \in table : row.station = st })
                = Cardinality(StoredInstants(st))

\* C3: two different batches that share an instant are both stored
C3_Witness ==
    /\ \A p \in Writers : pc[p] = "stats" /\ Len(observations[p]) = 2
    /\ observations["w1"] # observations["w2"]
    /\ Instants(observations["w1"]) \cap Instants(observations["w2"]) # {}
    /\ Cardinality(StoredInstants(STATIONS[1])) = 2
    /\ Cardinality(table) = 2

\* C4: a call that is not cut short by a failure of the store handles its
\* whole batch: every observation is counted as new or as duplicate, and when
\* the call returns every observation, also one that follows a duplicate, has
\* its row in the table.
C4_DuplicateDoesNotStopBatch ==
    \A p \in Writers :
        /\ pc[p] \in {"commit", "stats"} =>
              new_count[p] + duplicate_count[p] = Len(observations[p])
        /\ pc[p] = "stats" =>
              \A i \in 1..Len(observations[p]) :
                  \E row \in table : UniqueKey(row) = UniqueKey(observations[p][i])

\* C4: a returned call whose first observation was a duplicate of an older row
\* and whose second observation was new
C4_Witness ==
    \E p \in Writers :
        /\ pc[p] = "stats"
        /\ Len(observations[p]) = 2
        /\ duplicate_count[p] = 1
        /\ new_count[p] = 1
        /\ observations[p][1] \notin table
        /\ observations[p][2] \in table

\* every row, committed or inserted and not yet committed
AllRows == table \cup UNION { pending[p] : p \in Writers }

\* C5: however the inserts and commits of two writers of one station
\* interleave, no two rows, committed or still uncommitted, hold the same
\* station and instant.
C5_NoDuplicateUnderInterleaving ==
    \A r1 \in AllRows : \A r2 \in AllRows :
        (r1.station = r2.station /\ r1.datetime = r2.datetime) => r1 = r2

\* C5: both writers have stored batches that share an instant, and one of
\* them was refused a row the other had inserted
C5_Witness ==
    /\ \A p \in Writers : pc[p] = "stats" /\ Len(observations[p]) > 0
    /\ Instants(observations["w1"]) \cap Instants(observations["w2"]) # {}
    /\ \E p \in Writers : duplicate_count[p] > 0
    /\ \E p \in Writers : new_count[p] > 0 /\ duplicate_count[p] = 0

\* every observation parsed in a running call or stored by an earlier one
Resolved ==
    table \cup UNION { { observations[p][i] : i \in 1..Len(observations[p]) } :
                         p \in Writers }

\* C6: a DDHHMMZ token resolved when the clock read ref (the fetched_at of the
\* observation) lies in the month before ref's when its day is greater than
\* ref's day (December of the year before when ref is in January), else in
\* ref's month and year; day, hour and minute are the token's.
C6_MonthYearInference ==
    \A o \in Resolved :
        LET tok == o.observation_time
            dd  == 10 * tok[1] + tok[2]
            hh  == 10 * tok[3] + tok[4]
            mi  == 10 * tok[5] + tok[6]
            ref == o.fetched_at
            dt  == o.datetime
        IN  /\ dt[3] = dd /\ dt[4] = hh /\ dt[5] = mi
            /\ IF dd > ref[3]
               THEN IF ref[2] = 1
                    THEN dt[1] = ref[1] - 1 /\ dt[2] = 12
                    ELSE dt[1] = ref[1] /\ dt[2] = ref[2] - 1
               ELSE dt[1] = ref[1] /\ dt[2] = ref[2]

\* C6: the table holds a row resolved into December of the year before, one
\* resolved into the month before and one resolved into the clock's month
C6_Witness ==
    /\ \E o \in table : o.fetched_at[2] = 1 /\ o.datetime[2] = 12
                        /\ o.datetime[1] = o.fetched_at[1] - 1
    /\ \E o \in table : o.fetched_at[2] > 1
                        /\ o.datetime[2] = o.fetched_at[2] - 1
    /\ \E o \in table : o.datetime[2] = o.fetched_at[2]
                        /\ o.datetime[3] = o.fetched_at[3]

\* C7: the timestamp of a token depends on nothing but what the caller of the
\* resolver hands to it, the token: two resolutions of one token, whenever
\* they are made, give one timestamp.
C7_ResolverDeterministic ==
    \A r1 \in Resolved : \A r2 \in Resolved :
        r1.observation_time = r2.observation_time => r1.datetime = r2.datetime

\* the report has a wind group the collector accepts and a DDHHMMZ token that
\* is a date in every month
AlwaysParseable(report) ==
    /\ \E j \in 1..Len(report) :
          report[j].kind = "wind" /\ report[j].unit \in {"KT", "MPS"}
    /\ \E j \in 1..Len(report) :
          /\ report[j].kind = "time"
          /\ \A k \in 1..(j - 1) : report[k].kind # "time"
          /\ 10 * report[j].digits[1] + report[j].digits[2] \in 1..28
          /\ 10 * report[j].digits[3] + report[j].digits[4] \in 0..23
          /\ 10 * report[j].digits[5] + report[j].digits[6] \in 0..59

\* the report has no wind group
NoWindGroup(report) == \A j \in 1..Len(report) : report[j].kind # "wind"

\* C9: a report without wind group gives no observation and no exception (a
\* run fails only inside the store), and every parseable report of the list is
\* parsed and, when the run has stored its batch, has its row in the table,
\* whatever unparseable reports stand before or after it.
C9_UnparseableSkipped ==
    /\ [](\A p \in Writers :
            /\ \A i \in 1..Len(observations[p]) :
                  ~NoWindGroup(observations[p][i].metar_text)
            /\ Len(observations[p]) <= Len(metars[p])
            /\ \A i \in 1..Len(metars[p]) :
                  AlwaysParseable(metars[p][i]) =>
                      /\ \E k \in 1..Len(observations[p]) :
                            observations[p][k].metar_text = metars[p][i]
                      /\ pc[p] = "stats" =>
                            \E row \in table :
                               /\ row.station = station[p]
                               /\ \E j \in 1..Len(metars[p][i]) :
                                     /\ metars[p][i][j].kind = "time"
                                     /\ row.observation_time = metars[p][i][j].digits)
    /\ [][\A p \in Writers :
            (pc'[p] = "raised" /\ pc[p] # "raised")
                => pc[p] \in {"insert", "commit"}]_vars

\* C9: a run has stored the one parseable report of a list in which a report
\* without wind group stands before it
C9_Witness ==
    \E p \in Writers :
        /\ pc[p] = "stats"
        /\ Len(metars[p]) = 2
        /\ NoWindGroup(metars[p][1])
        /\ AlwaysParseable(metars[p][2])
        /\ Len(observations[p]) = 1
        /\ observations[p][1] \in table

\* C10: when store_observations is left by an exception, nothing of the call
\* is committed: the table is what it was, the rows inserted by the call are
\* gone, the table changes only in the commit of a call that returns its count,
\* and a call that raised hands no count to get_database_stats.
C10_FailureCommitsNothing ==
    /\ [][\A p \in Writers :
            /\ (pc'[p] = "raised" /\ pc[p] # "raised")
                  => table' = table /\ pending'[p] = {}
            /\ InsertStepBy(p) => table' = table]_vars
    /\ [][table' # table => \E p \in Writers : CommitBy(p)]_vars
    /\ [](\A p \in Writers : pc[p] = "raised" => pending[p] = {})

\* C10: a call has raised after it had inserted a row, and the row is not in
\* the table
C10_Witness ==
    \E p \in Writers :
        /\ pc[p] = "raised"
        /\ new_count[p] > 0
        /\ \E i \in 1..Len(observations[p]) :
              \A row \in table : UniqueKey(row) # UniqueKey(observations[p][i])

\* C11: a stored row is never changed: an INSERT that meets a row with its key
\* and other field values (wind, raw text or fetched_at) writes nothing, and
\* at the commit of the call every row of the table is still there with the
\* field values it had, the only row of its key.
C11_FirstWriteWins ==
    [][\A p \in Writers :
          /\ (/\ InsertStepBy(p)
              /\ \E row \in table \cup pending[p] :
                    /\ UniqueKey(row) = UniqueKey(observations[p][idx[p]])
                    /\ row # observations[p][idx[p]])
                => /\ table' = table
                   /\ pending'[p] = pending[p]
          /\ CommitBy(p) =>
                \A row \in table :
                    /\ row \in table'
                    /\ \A other \in table' :
                          UniqueKey(other) = UniqueKey(row) => other = row]_vars

\* C11: a call has returned that was handed an observation with the key of a
\* stored row and another wind speed, raw text and fetched_at, and the table
\* holds the stored row
C11_Witness ==
    \E p \in Writers : \E i \in 1..Len(observations[p]) : \E row \in table :
        /\ pc[p] = "stats"
        /\ duplicate_count[p] > 0
        /\ UniqueKey(row) = UniqueKey(observations[p][i])
        /\ row.wind_speed # observations[p][i].wind_speed
        /\ row.metar_text # observations[p][i].metar_text
        /\ row.fetched_at # observations[p][i].fetched_at

\* C12: no step of a collector run, of get_database_stats or of an export
\* takes a row out of the table or changes one: every row of the table is a
\* row of the table after the step.
C12_RowsOnlyGrow ==
    [][\A row \in table : row \in table']_vars

\* C12: an export reads a table of two rows after a run has added to the rows
\* of an earlier one and another run has failed
C12_Witness ==
    /\ Cardinality(table) >= 2
    /\ \E r1 \in table : \E r2 \in table : r1.metar_text # r2.metar_text
    /\ pc[Main] = "raised"
    /\ script = "export_to_json"
    /\ Len(rows) >= 2

\* a date 'YYYY-MM-DD' as a number
DateNum(d) == (d[1] * 100 + d[2]) * 100 + d[3]

\* the timestamp a is an earlier instant than the timestamp b
Earlier(a, b) ==
    \/ DateNum(a) < DateNum(b)
    \/ /\ DateNum(a) = DateNum(b)
       /\ (a[4] * 100 + a[5]) * 100 + a[6] < (b[4] * 100 + b[5]) * 100 + b[6]

\* the rows of the table a range query for the call's arguments is to give
InRange(q) ==
    { row \in table :
        /\ row.station = q.station
        /\ q.start_date # NoneStr => DateNum(row.date) >= DateNum(q.start_date)
        /\ q.end_date # NoneStr => DateNum(row.date) <= DateNum(q.end_date) }

\* C15: the rows export_to_csv / export_to_json fetch are exactly the rows of
\* the station dated within [start_date, end_date], both bounds included, a
\* bound left out not limiting, each row once, in ascending order of their
\* timestamps; they are what the call writes to its file.
C15_QueryRange ==
    script \in {"export_to_csv", "export_to_json", "aggregate_by_day"} =>
        /\ { rows[i] : i \in 1..Len(rows) } = InRange(params)
        /\ Len(rows) = Cardinality(InRange(params))
        /\ \A i \in 1..Len(rows) : \A j \in 1..Len(rows) :
              i < j => Earlier(rows[i].datetime, rows[j].datetime)
        /\ Len(rows) > 0 => output_file = Written(rows)

\* C15: a call with start_date = end_date has fetched the row of that date
\* while the table holds a row of the station of another date and a row of
\* another station of that date
C15_Witness ==
    /\ script = "export_to_csv"
    /\ params.start_date # NoneStr
    /\ params.start_date = params.end_date
    /\ Len(rows) = 1
    /\ rows[1].date = params.start_date
    /\ \E row \in table :
          row.station = params.station /\ row.date # params.start_date
    /\ \E row \in table :
          row.station # params.station /\ row.date = params.start_date

\* C16 for one day of a summary: count, smallest, largest and mean of the
\* speeds given by speed over the set S; the mean is in tenths, a tenth next to
\* the exact mean
DayMatches(observations_, min_, max_, avg_, S, speed) ==
    /\ S # {}
    /\ observations_ = Cardinality(S)
    /\ \E x \in S : speed[x] = min_
    /\ \A x \in S : speed[x] >= min_
    /\ \E x \in S : speed[x] = max_
    /\ \A x \in S : speed[x] <= max_
    /\ 2 * (avg_ * Cardinality(S) - 10 * SumOver(S, speed)) <= Cardinality(S)
    /\ 2 * (10 * SumOver(S, speed) - avg_ * Cardinality(S)) <= Cardinality(S)

\* C16: export_daily_summary gives one entry for each date of the station's
\* rows in the table at the call, in ascending order of the dates, with the
\* number of rows of the date, the smallest and the largest wind_speed and
\* their mean rounded to one decimal; aggregate_by_day gives the same for the
\* records it is handed.
C16_DailySummary ==
    /\ script = "export_daily_summary" =>
          LET found == { row \in table : row.station = params.station }
          IN  /\ { daily_data[i].date : i \in 1..Len(daily_data) }
                    = { row.date : row \in found }
              /\ \A i \in 1..Len(daily_data) : \A j \in 1..Len(daily_data) :
                    i < j => DateNum(daily_data[i].date)
                                < DateNum(daily_data[j].date)
              /\ \A i \in 1..Len(daily_data) :
                    LET S == { row \in found : row.date = daily_data[i].date }
                    IN  DayMatches(daily_data[i].observations,
                                   daily_data[i].min_wind_speed,
                                   daily_data[i].max_wind_speed,
                                   daily_data[i].avg_wind_speed,
                                   S, [row \in S |-> row.wind_speed])
    /\ script = "aggregate_by_day" =>
          LET records == output_file.content
          IN  /\ { daily_data[i].date : i \in 1..Len(daily_data) }
                    = { records[k].date : k \in 1..Len(records) }
              /\ \A i \in 1..Len(daily_data) : \A j \in 1..Len(daily_data) :
                    i < j => DateNum(daily_data[i].date)
                                < DateNum(daily_data[j].date)
              /\ \A i \in 1..Len(daily_data) :
                    LET S == { k \in 1..Len(records) :
                                 records[k].date = daily_data[i].date }
                    IN  DayMatches(daily_data[i].observations,
                                   daily_data[i].min_speed,
                                   daily_data[i].max_speed,
                                   daily_data[i].avg_speed,
                                   S, [k \in S |-> records[k].wind_speed])

\* C16: the summary of a date with the speeds 5, 10 and 15: avg 10.0, min 5,
\* max 15, observations 3
C16_Witness ==
    /\ script = "export_daily_summary"
    /\ \E i \in 1..Len(daily_data) :
          /\ daily_data[i].observations = 3
          /\ daily_data[i].avg_wind_speed = 100
          /\ daily_data[i].min_wind_speed = 5
          /\ daily_data[i].max_wind_speed = 15
    /\ \A row \in table : row.wind_speed \in {5, 10, 15}

\* the first position of a list whose element has the key of x, for a key
\* given as a function of the position
FirstWithKey(keys, key) ==
    CHOOSE i \in DOMAIN keys :
        keys[i] = key /\ \A j \in 1..(i - 1) : keys[j] # key

\* C13: in store_observations the rows a call has inserted hold one row for
\* each key, the first observation of the batch with that key; in
\* export_wind_data.main unique_wind_data holds one record for each timestamp
\* of the parsed records, the first in input order with that timestamp, in
\* ascending order of the timestamps.
C13_FirstOfBatchKept ==
    /\ \A p \in Writers :
          LET keys == [i \in 1..Len(observations[p]) |->
                          UniqueKey(observations[p][i])]
          IN  /\ \A row \in pending[p] :
                    row = observations[p][FirstWithKey(keys, UniqueKey(row))]
              /\ \A r1 \in pending[p] : \A r2 \in pending[p] :
                    UniqueKey(r1) = UniqueKey(r2) => r1 = r2
              /\ pc[p] = "commit" =>
                    \A i \in 1..Len(observations[p]) :
                       \E row \in table \cup pending[p] :
                          UniqueKey(row) = keys[i]
    /\ script = "synop_exported" =>
          LET parsed == SynopParseEach(synop_data)
              keys   == [i \in 1..Len(parsed) |-> parsed[i].datetime_utc]
          IN  /\ { unique_wind_data[k].datetime_utc :
                     k \in 1..Len(unique_wind_data) }
                    = { keys[i] : i \in 1..Len(parsed) }
              /\ \A k \in 1..Len(unique_wind_data) :
                    unique_wind_data[k] =
                       parsed[FirstWithKey(keys,
                                           unique_wind_data[k].datetime_utc)]
              /\ \A k \in 1..Len(unique_wind_data) :
                    \A m \in 1..Len(unique_wind_data) :
                       k < m => Earlier(unique_wind_data[k].datetime_utc,
                                        unique_wind_data[m].datetime_utc)

\* C13: a call of store_observations has stored the first of two observations
\* of one key and another wind, and a run of export_wind_data.main has kept
\* the first of two records of one timestamp
C13_Witness ==
    /\ pc[Main] = "stats"
    /\ Len(observations[Main]) = 2
    /\ UniqueKey(observations[Main][1]) = UniqueKey(observations[Main][2])
    /\ observations[Main][1] # observations[Main][2]
    /\ new_count[Main] = 1
    /\ observations[Main][1] \in table
    /\ script = "synop_exported"
    /\ Len(synop_data) = 2
    /\ Len(wind_data) = 2
    /\ Len(unique_wind_data) = 1
    /\ wind_data[1] # wind_data[2]
    /\ unique_wind_data[1].synop = synop_data[1].synop

\* C14: the observations a run hands to store_observations are in ascending
\* order of their timestamps: none is an earlier instant than one before it in
\* the list.
C14_HandedOverSorted ==
    \A p \in Writers :
        \A i \in 1..Len(observations[p]) : \A j \in 1..Len(observations[p]) :
            i < j => ~Earlier(observations[p][j].datetime,
                              observations[p][i].datetime)

\* the report handed to the extractor that was called last, its leftmost wind
\* group, and what the extractor returned (a list of one record, or of none)
Report == metars[Main][1]
LeftmostWind ==
    IF \E i \in 1..Len(Report) : Report[i].kind = "wind"
    THEN Report[CHOOSE i \in 1..Len(Report) :
                   /\ Report[i].kind = "wind"
                   /\ \A j \in 1..(i - 1) : Report[j].kind # "wind"]
    ELSE None
Extracted == IF script = "parse_metar" THEN observations[Main] ELSE wind_data

\* the DDHHMMZ token of the report handed to the routine called last
ReportToken ==
    Report[CHOOSE i \in 1..Len(Report) :
              /\ Report[i].kind = "time"
              /\ \A j \in 1..(i - 1) : Report[j].kind # "time"].digits

\* year, month, day, hour and minute the rule of the collector gives a token
\* at the reference instant ref
RuleResolution(digits, ref) ==
    LET dd == 10 * digits[1] + digits[2]
        hh == 10 * digits[3] + digits[4]
        mi == 10 * digits[5] + digits[6]
    IN  IF dd > ref.day
        THEN IF ref.month = 1 THEN <<ref.year - 1, 12, dd, hh, mi>>
             ELSE <<ref.year, ref.month - 1, dd, hh, mi>>
        ELSE <<ref.year, ref.month, dd, hh, mi>>

\* the token of the report is a calendar date at the clock reading of the call
TokenIsDate ==
    LET r == RuleResolution(ReportToken, now)
    IN  ValidDate(r[1], r[2], r[3], r[4], r[5])

\* the number a group of two or three digits stands for
Figure(ds) ==
    IF Len(ds) = 2 THEN 10 * ds[1] + ds[2]
    ELSE 100 * ds[1] + 10 * ds[2] + ds[3]

\* C17: parse_metar of a report whose leftmost wind group is dddss[Ggg]KT (and
\* whose DDHHMMZ token is a calendar date) gives an observation with direction
\* ddd, speed ss and gust gg, no gust when the group has none, whatever wind
\* groups follow in the report.
C17_LeftmostWindGroup ==
    (script = "parse_metar" /\ LeftmostWind # None /\ LeftmostWind.unit = "KT"
        /\ TokenIsDate)
        => /\ Len(Extracted) = 1
           /\ Extracted[1].wind_direction = LeftmostWind.direction
           /\ Extracted[1].wind_speed = Figure(LeftmostWind.speed)
           /\ Extracted[1].wind_gust =
                 (IF Len(LeftmostWind.gust) = 0 THEN NoGust
                  ELSE Figure(LeftmostWind.gust))
           /\ Extracted[1].unit = "KT"

\* C17: parse_metar has read 02010G20KT from a report whose remarks hold a
\* wind group without gust
C17_Witness ==
    /\ script = "parse_metar"
    /\ Len(Report) = 5
    /\ Report[3] = WindTok("020", <<1, 0>>, <<2, 0>>, "KT")
    /\ Report[5].kind = "wind" /\ Report[5].gust = <<>>
    /\ Len(Extracted) = 1
    /\ Extracted[1].wind_direction = "020"
    /\ Extracted[1].wind_speed = 10
    /\ Extracted[1].wind_gust = 20

\* C18: each of the three extractors gives, for a report whose wind group ends
\* in KT, MPS or KPH (and whose DDHHMMZ token is a calendar date), an
\* observation with that unit.
C18_AllUnitsAccepted ==
    (script \in {"parse_metar", "parse_wind_data", "parse_checkwx_metar"}
        /\ LeftmostWind # None /\ TokenIsDate)
        => /\ Len(Extracted) = 1
           /\ Extracted[1].unit = LeftmostWind.unit

\* C19: the speed and the gust of an observation are knots: for a report in
\* MPS or KPH they are the converted figures of the report (less than one knot
\* off 1.94384 kt for 1 m/s and 1 kt for 1.852 km/h), the unit of the report
\* being kept in unit.
C19_StoredInKnots ==
    (script = "parse_metar" /\ LeftmostWind # None /\ Len(Extracted) = 1)
        => LET raw == Figure(LeftmostWind.speed)
               kt  == Extracted[1].wind_speed
           IN  /\ Extracted[1].unit = LeftmostWind.unit
               /\ LeftmostWind.unit = "MPS" =>
                     /\ 100000 * kt - 194384 * raw < 100000
                     /\ 194384 * raw - 100000 * kt < 100000
               /\ LeftmostWind.unit = "KPH" =>
                     /\ 1852 * kt - 1000 * raw < 1852
                     /\ 1000 * raw - 1852 * kt < 1852

\* the figures of a SYNOP message as the report gives them: the wind-unit
\* indicator, the speed of the wind group and the gust of section 3 (NoGust
\* when the message has no gust group)
Indicator(synop) == synop[2][2]
RawSpeed(synop) == IntOf(SubSeq(synop[3], 4, 5))
RawGust(synop) ==
    IF \E i \in 4..Len(synop) : synop[i][1] = "9" /\ synop[i][2] = "1"
    THEN IntOf(SubSeq(synop[CHOOSE i \in 4..Len(synop) :
                                synop[i][1] = "9" /\ synop[i][2] = "1"], 4, 5))
    ELSE NoGust

\* tenths is figure * 1.94384 rounded to one decimal
IsRoundedKnots(tenths, figure) ==
    /\ 2 * (10000 * tenths - 194384 * figure) <= 10000
    /\ 2 * (194384 * figure - 10000 * tenths) <= 10000

\* C20: a record made from a SYNOP message with wind-unit indicator 1 has
\* sustained_speed_kt = round(speed * 1.94384, 1) and, when the message gives a
\* gust, gust_speed_kt = round(gust * 1.94384, 1); with any other indicator
\* speed and gust are the figures of the message.
C20_SynopKnots ==
    \A k \in 1..Len(wind_data) :
        LET rec == wind_data[k]
        IN  (script = "synop_exported") =>
               IF Indicator(rec.synop) = "1"
               THEN /\ IsRoundedKnots(rec.sustained_speed_kt,
                                      RawSpeed(rec.synop))
                    /\ RawGust(rec.synop) # NoGust =>
                          /\ rec.gust_speed_kt # NoGust
                          /\ IsRoundedKnots(rec.gust_speed_kt,
                                            RawGust(rec.synop))
               ELSE /\ rec.sustained_speed_kt = 10 * RawSpeed(rec.synop)
                    /\ RawGust(rec.synop) # NoGust =>
                          rec.gust_speed_kt = 10 * RawGust(rec.synop)

\* C21: the record of a SYNOP message has a gust, in knots and in km/h, if and
\* only if the message has a gust group: a message without one gives no gust
\* (not 0), a message with the gust group 91000 gives the gust 0 (not none).
C21_GustPresence ==
    script = "synop_exported" =>
        \A k \in 1..Len(wind_data) :
            LET rec == wind_data[k]
            IN  /\ rec.gust_speed_kt # NoGust <=> RawGust(rec.synop) # NoGust
                /\ rec.gust_speed_kmh # NoGust <=> RawGust(rec.synop) # NoGust

\* the degrees a direction text of a METAR wind group stands for
Degrees(direction) ==
    CASE direction = "010" -> 10
      [] direction = "020" -> 20
      [] direction = "270" -> 270
      [] direction = "360" -> 360
      [] direction = "999" -> 999

\* C22: the direction of every observation an extractor gives is the variable
\* sentinel or a bearing of at least 0 and less than 360 degrees; a wind group
\* with another bearing gives no observation.
C22_DirectionInRange ==
    \A k \in 1..Len(Extracted) :
        \/ Extracted[k].wind_direction = "VRB"
        \/ Degrees(Extracted[k].wind_direction) \in 0..359

\* C23: the record of a SYNOP message whose wind-unit indicator is 0 (calm) has
\* the sustained speed 0 and a direction that is neither a bearing nor the
\* variable sentinel, whatever the figures of its wind group.
C23_CalmIndicator ==
    script = "synop_exported" =>
        \A k \in 1..Len(wind_data) :
            LET rec == wind_data[k]
            IN  Indicator(rec.synop) = "0" =>
                   /\ rec.sustained_speed_kt = 0
                   /\ rec.sustained_speed_kmh = 0
                   /\ rec.wind_direction \notin 0..360
                   /\ rec.wind_direction # -1

\* year, month, day, hour and minute of a record a routine gave
ResolvedFields(rec) ==
    IF script = "chatgpt"
    THEN rec.date \o rec.time_canary
    ELSE SubSeq(rec.datetime, 1, 5)

\* C24: the collector, the OGIMET, CheckWX and manual-file parsers and the CSV
\* script resolve the DDHHMMZ token of a report, at one clock reading, to the
\* same year, month, day, hour and minute: those of the collector's rule.
C24_SameResolution ==
    script \in {"parse_metar", "parse_wind_data", "parse_checkwx_metar",
                "manual_parse_wind_data", "chatgpt"} =>
        \A k \in 1..Len(Extracted) :
            (script = "chatgpt" \/ Extracted[k].datetime # NoneStr) =>
                ResolvedFields(Extracted[k]) = RuleResolution(ReportToken, now)

\* C25: the instant parse_metar resolves a token to is never later than the
\* clock reading it was resolved at.
C25_NeverLaterThanNow ==
    script = "parse_metar" =>
        \A k \in 1..Len(Extracted) :
            ~Earlier(Isoformat(now), Extracted[k].datetime)

\* C25 as amended: the instant parse_metar resolves a token to never lies on a
\* later calendar day than the clock reading it was resolved at.
C25_NotOnLaterDay ==
    script = "parse_metar" =>
        \A k \in 1..Len(Extracted) :
            DateNum(Extracted[k].date) <= DateNum(DateStr(now))

\* C25: parse_metar has resolved a token of the clock's day to a later time of
\* that day
C25_Witness ==
    /\ script = "parse_metar"
    /\ Len(Extracted) = 1
    /\ Extracted[1].date = DateStr(now)
    /\ Earlier(Isoformat(now), Extracted[1].datetime)

\* the datetime an ISO timestamp stands for
InstantOf(iso) == DateTime(iso[1], iso[2], iso[3], iso[4], iso[5])

\* C26: an observation whose report was observed at an instant t within the
\* HOURS_TO_FETCH hours before the clock reading of its run is resolved to
\* exactly t, also across a month or a year boundary; whatever runs within 48
\* hours after t fetch the report, the table holds at most one row for it.
C26_KeyStableInWindow ==
    /\ \A o \in Resolved : \A t \in ObservationInstants :
          (o.observation_time = TokenOf(t)
              /\ InWindow(t, InstantOf(o.fetched_at)))
                => o.datetime = Isoformat(t)
    /\ \A t \in ObservationInstants : \A st \in RunStations :
          Cardinality({ row \in table :
                          /\ row.station = st
                          /\ row.observation_time = TokenOf(t)
                          /\ InWindow(t, InstantOf(row.fetched_at)) }) <= 1

\* C26: a run of January has met, as a duplicate, the report of a December
\* observation that a run of December had stored
C26_Witness ==
    \E row \in table : \E i \in 1..Len(observations[Main]) :
        /\ pc[Main] = "stats"
        /\ duplicate_count[Main] >= 1
        /\ observations[Main][i].observation_time = row.observation_time
        /\ observations[Main][i].datetime = row.datetime
        /\ row.datetime[1] = 2024 /\ row.datetime[2] = 12
        /\ row.fetched_at[1] = 2024
        /\ observations[Main][i].fetched_at[1] = 2025

\* the rows of a station in a table
RowsOfStation(committed, st) == { row \in committed : row.station = st }

\* the rows a collector's observations give in a store of its own: for each
\* key the first observation that has it
RowsAlone(p) ==
    { observations[p][i] : i \in
        { i \in 1..Len(observations[p]) :
            \A j \in 1..(i - 1) :
               UniqueKey(observations[p][j]) # UniqueKey(observations[p][i]) } }

\* C28: with collectors of different stations interleaved in any order, a
\* step changes the rows of a station only when it is a step of
\* store_observations of that station's collector; when that call returns,
\* the station's rows are those it would have stored alone; and
\* get_database_stats counts exactly the rows of its own station.
C28_StationsIndependent ==
    [][ /\ \A st \in RunStations :
              RowsOfStation(table', st) # RowsOfStation(table, st) =>
                 \E p \in Writers :
                    /\ station[p] = st
                    /\ pc[p] \in {"insert", "commit"}
                    /\ pc'[p] # pc[p]
        /\ \A p \in Writers :
              /\ (pc[p] = "commit" /\ pc'[p] = "stats") =>
                    RowsOfStation(table', station[p]) = RowsAlone(p)
              /\ (pc[p] = "stats" /\ pc'[p] = "returned_true") =>
                    /\ db_stats'[p].total_observations
                          = Cardinality(RowsOfStation(table, station[p]))
                    /\ db_stats'[p].total_observations
                          = Cardinality(RowsAlone(p)) ]_vars

\* C28: both stations have rows in the table and the first collector has
\* counted fewer rows than the table holds
C28_Witness ==
    /\ \A st \in RunStations : RowsOfStation(table, st) # {}
    /\ pc[Main] = "returned_true"
    /\ db_stats[Main] # None
    /\ db_stats[Main].total_observations < Cardinality(table)

\* the reports of a list that parse_metar returns None for
Skipped(st, ms) == { i \in 1..Len(ms) : ParseMetar(st, ms[i]) = None }

\* C29: when store_observations returns, new_count plus duplicate_count is
\* the length of the batch and the table has new_count rows more than before
\* the call; and in run() the observations parsed plus the reports skipped
\* are the reports fetched.
C29_RunAccounting ==
    [][ \A p \in Writers :
          /\ (pc[p] = "commit" /\ pc'[p] = "stats") =>
                /\ new_count[p] + duplicate_count[p] = Len(observations[p])
                /\ Cardinality(table') = Cardinality(table) + new_count[p]
          /\ (NotRunning(p) /\ pc'[p] \in {"insert", "stats"}) =>
                /\ Len(observations'[p])
                      + Cardinality(Skipped(station'[p], metars'[p]))
                      = Len(metars'[p])
                /\ table' = table ]_vars

\* C29: a call of store_observations has returned 1 for a batch of two
\* observations, one of them a duplicate, into a table that had a row
C29_Witness ==
    /\ pc[Main] = "stats"
    /\ new_count[Main] = 1
    /\ duplicate_count[Main] = 1
    /\ Cardinality(table) = 2

\* the chunks of the loop so far are contiguous from start_date, each spans
\* at most 31 days, the loop stands where the last chunk ended, whether its
\* request failed or not, and the last chunk of a returned call ends at
\* end_date
ChunksPartition ==
    (loop # None /\ loop.start_date < loop.end_date) =>
       LET n == Len(loop.chunks)
       IN  /\ \A i \in 1..n :
                 /\ loop.chunks[i].current_start < loop.chunks[i].current_end
                 /\ loop.chunks[i].current_end - loop.chunks[i].current_start
                       <= Days(31)
                 /\ loop.chunks[i].current_start =
                       IF i = 1 THEN loop.start_date
                       ELSE loop.chunks[i - 1].current_end
           /\ loop.current_start =
                 IF n = 0 THEN loop.start_date ELSE loop.chunks[n].current_end
           /\ loop.pc = "returned" =>
                 (n > 0 /\ loop.chunks[n].current_end = loop.end_date)
           /\ loop.pc = "while" => loop.current_start < loop.end_date

InLoop == loop # None /\ loop.pc = "while"

Returned == loop # None /\ loop.pc = "returned"

\* C30: a chunked fetch loop called with start_date < end_date partitions
\* the range into contiguous chunks of at most 31 days from start_date to
\* end_date, goes on to the next chunk when a request fails, and returns.
C30_ChunkLoop == []ChunksPartition /\ (InLoop ~> Returned)

\* C30: the loop has returned after three chunks, the second of which failed
C30_Witness ==
    /\ Returned
    /\ Len(loop.chunks) = 3
    /\ ~loop.chunks[2].ok
    /\ loop.chunks[3].ok
    /\ loop.chunks[3].current_end - loop.chunks[3].current_start < Days(31)

\* the reports a tokenizer found in its text, before it removed duplicates
Found == metars[Main]

\* C27: the list a tokenizer returns holds no report twice (so no two equal
\* reports are adjacent), holds every report found in the text, and holds
\* them in the order of their first occurrence in the text.
C27_TokenizerDedup ==
    script \in {"parse_ogimet_response", "extract_metars_from_text"} =>
        /\ \A i \in 1..Len(unique_metars) : \A j \in 1..Len(unique_metars) :
              unique_metars[i] = unique_metars[j] => i = j
        /\ { unique_metars[i] : i \in 1..Len(unique_metars) }
              = { Found[k] : k \in 1..Len(Found) }
        /\ \A i \in 1..Len(unique_metars) : \A j \in 1..Len(unique_metars) :
              i < j =>
                 \E k \in 1..Len(Found) :
                    /\ Found[k] = unique_metars[i]
                    /\ \A m \in 1..Len(Found) :
                          Found[m] = unique_metars[j] => k < m

\* C27: a tokenizer was given a text with the reports A, B, A and has
\* returned A, B
C27_Witness ==
    /\ script = "parse_ogimet_response"
    /\ Len(html_text) = 3
    /\ Len(Found) = 3
    /\ Found[1] = Found[3]
    /\ Found[1] # Found[2]
    /\ unique_metars = << Found[1], Found[2] >>

\* C8: a report whose DDHHMMZ token gives no calendar date yields no record:
\* no record without timestamp is built or written to the file by any script.
C8_InvalidDateYieldsNothing ==
    /\ \A i \in 1..Len(wind_data) :
          wind_data[i].datetime # NoneStr /\ wind_data[i].date # NoneStr
    /\ \A i \in 1..Len(json_file) :
          json_file[i].datetime # NoneStr /\ json_file[i].date # NoneStr

====
